---- MODULE Spec2Model ----
(***************************************************************************)
(* ChainBridge constitutional kernel: the cognitive-friction gate          *)
(* (cognitive/mod.rs, timer.rs, challenge.rs, decision.rs), the G9         *)
(* friction gate (friction.rs) and the G1-G9 validator (validator.rs).     *)
(*                                                                         *)
(* Time is a natural number of seconds.  `now` stands for both             *)
(* Instant::now() and Utc::now(); every Duration of the code is a whole    *)
(* number of seconds, so one model time unit is one second.                *)
(***************************************************************************)
EXTENDS Integers, Sequences, FiniteSets, TLC

VARIABLES
    now,             \* the clock read by Instant::now() / Utc::now()
    timer,           \* CognitiveGate.timer         : FrictionTimer
    verifier,        \* CognitiveGate.verifier      : ChallengeVerifier
    decision_gate,   \* CognitiveGate.decision_gate : DecisionGate
    armed,           \* CognitiveGate.armed
    result,          \* the last call and what it returned
    failed_reviews,  \* history: ids whose review met a ChallengeFailure since its start_review
    velocity_rejected, \* history: some decision was refused with VelocityViolation
    pac              \* the artifact handed to the validator

\* history of ChallengeVerifier::verify calls
VARIABLES
    resolved,        \* history: challenge ids verify answered with Ok(true) or ChallengeFailure
    evaluated        \* history: per challenge id, the number of answers check_answer was given

\* history of FrictionTimer calls
VARIABLES
    review_log       \* history: per active timer, when its review was started by start,
                     \* the seconds it has spent paused, since when it is paused, and
                     \* whether it was ever resumed

history == <<resolved, evaluated, review_log>>

\* the governance ledger on disk and the threads appending to it (ledger.rs)
VARIABLES
    files,           \* the ledger file, the temporary file and the holders of the lock file
    writers,         \* per writer thread, its position in append_entry and its locals
    returned         \* history: the sequence numbers append_entry returned with Ok, in order

ledger_state == <<files, writers, returned>>

\* history of CognitiveGate::submit_decision calls
VARIABLES
    approved_reviews \* history: ids whose review an armed gate Approved since its start_review

\* the process supervisor (main.rs)
VARIABLES
    sentinel,        \* run_sentinel: its position, configuration, failure count, child and exit
    polls            \* history: what hardware.check_signal returned on each poll of the loop

sentinel_state == <<sentinel, polls>>

vars == <<now, timer, verifier, decision_gate, armed, result, failed_reviews,
          velocity_rejected, pac, history, ledger_state, approved_reviews, sentinel_state>>

----------------------------------------------------------------------------
(* Bounds of the model *)

MaxTime == 5        \* last second of the clock where it advances second by second
MaxReviews == 1     \* reviews started where the clock advances second by second
MaxTicks == 1       \* times the clock advances where it advances by a whole dwell
MaxSessions == 2    \* reviews started plus challenges issued
MaxRecent == 4      \* recorded decisions kept when velocity enforcement is off
MaxClock == 91      \* last second of the clock where it advances by half windows
MaxDecisions == 4   \* reviews started where the velocity ceiling of the gate is met

DecisionIds == {"d1"}

----------------------------------------------------------------------------
(* Generic helpers *)

saturating_sub(a, b) == IF a > b THEN a - b ELSE 0

\* a removal that removes nothing
MapRemove_nothing(f, ks) == f

MapRemove(f, ks) == [k \in (DOMAIN f) \ ks |-> f[k]]

MapInsert(f, k, v) == [x \in (DOMAIN f) \cup {k} |-> IF x = k THEN v ELSE f[x]]

EmptyMap == [x \in {} |-> 0]

----------------------------------------------------------------------------
(* cognitive/mod.rs : FrictionTier *)

FrictionTier == {"Law", "Policy", "Guidance", "Operational"}

minimum_dwell_wrong_law(tier) ==
    CASE tier = "Law" -> 4
      [] tier = "Policy" -> 3
      [] tier = "Guidance" -> 2
      [] tier = "Operational" -> 1

minimum_dwell(tier) ==
    CASE tier = "Law" -> 5
      [] tier = "Policy" -> 3
      [] tier = "Guidance" -> 2
      [] tier = "Operational" -> 1

requires_challenge(tier) == tier = "Law"

challenge_recommended(tier) == tier \in {"Law", "Policy"}

allows_remember_shortcut_all(tier) == tier \in FrictionTier

allows_remember_shortcut(tier) == tier \in {"Guidance", "Operational"}

----------------------------------------------------------------------------
(* cognitive/timer.rs : DwellRequirement, ActiveTimer, FrictionTimer *)

DwellRequirement_for_tier(tier) ==
    CASE tier = "Law" -> [minimum |-> 5, recommended |-> 30, maximum |-> 300, tier |-> tier]
      [] tier = "Policy" -> [minimum |-> 3, recommended |-> 15, maximum |-> 180, tier |-> tier]
      [] tier = "Guidance" -> [minimum |-> 2, recommended |-> 10, maximum |-> 120, tier |-> tier]
      [] tier = "Operational" -> [minimum |-> 1, recommended |-> 5, maximum |-> 60, tier |-> tier]

\* an elapsed time that runs on while the timer is paused
effective_elapsed_while_paused(at, t) == saturating_sub(t - at.started_at, at.paused_duration)

\* ActiveTimer::effective_elapsed at clock t
effective_elapsed(at, t) ==
    IF at.paused THEN 0 ELSE saturating_sub(t - at.started_at, at.paused_duration)

\* ActiveTimer::is_satisfied
ActiveTimer_is_satisfied(at, t) == effective_elapsed(at, t) >= at.requirement.minimum

\* ActiveTimer::to_state
to_state(at, t) ==
    LET elapsed == effective_elapsed(at, t) IN
    [started_at |-> at.started_at,
     elapsed |-> elapsed,
     required_dwell |-> at.requirement.minimum,
     dwell_satisfied |-> elapsed >= at.requirement.minimum,
     tier |-> at.tier]

FrictionTimer_new ==
    [active_timers |-> EmptyMap, completed_timers |-> <<>>, max_concurrent |-> 100]

\* FrictionTimer::find_oldest_timer: min_by_key over a HashMap, whose iteration
\* order is unspecified, so any entry with the least started_at may be returned.
find_oldest_timer(tm) ==
    {id \in DOMAIN tm.active_timers :
        \A o \in DOMAIN tm.active_timers :
            tm.active_timers[id].started_at <= tm.active_timers[o].started_at}

\* the ActiveTimer that FrictionTimer::start builds at clock t
ActiveTimer_started(tier, t) ==
    [started_at |-> t, tier |-> tier,
     requirement |-> DwellRequirement_for_tier(tier),
     paused |-> FALSE, paused_duration |-> 0]

\* FrictionTimer::start: the set of timers the call may leave
FrictionTimer_start(tm, decision_id, tier, t) ==
    LET fresh == ActiveTimer_started(tier, t)
        evictions ==
            IF Cardinality(DOMAIN tm.active_timers) >= tm.max_concurrent
               /\ find_oldest_timer(tm) # {}
            THEN {{o} : o \in find_oldest_timer(tm)}
            ELSE {{}}
    IN {[tm EXCEPT !.active_timers = MapInsert(MapRemove(@, ev), decision_id, fresh)] :
            ev \in evictions}

\* check answering for a decision without a timer as if one had just been started
FrictionTimer_check_or_fresh(tm, decision_id, t) ==
    IF decision_id \in DOMAIN tm.active_timers
    THEN [ok |-> TRUE, state |-> to_state(tm.active_timers[decision_id], t)]
    ELSE [ok |-> TRUE,
          state |-> to_state([started_at |-> t, tier |-> "Operational",
                              requirement |-> DwellRequirement_for_tier("Operational"),
                              paused |-> FALSE, paused_duration |-> 0], t)]

\* FrictionTimer::check
FrictionTimer_check(tm, decision_id, t) ==
    IF decision_id \in DOMAIN tm.active_timers
    THEN [ok |-> TRUE, state |-> to_state(tm.active_timers[decision_id], t)]
    ELSE [ok |-> FALSE, error |-> "TimerNotStarted"]

\* a pause that stops every running timer
FrictionTimer_pause_all(tm, decision_id) ==
    [tm EXCEPT !.active_timers = [id \in DOMAIN @ |-> [@[id] EXCEPT !.paused = TRUE]]]

\* FrictionTimer::pause
FrictionTimer_pause(tm, decision_id) ==
    IF decision_id \in DOMAIN tm.active_timers
    THEN [tm EXCEPT !.active_timers[decision_id].paused = TRUE]
    ELSE tm

\* FrictionTimer::resume
FrictionTimer_resume(tm, decision_id, t) ==
    IF decision_id \in DOMAIN tm.active_timers /\ tm.active_timers[decision_id].paused
    THEN [tm EXCEPT !.active_timers[decision_id] =
             [@ EXCEPT !.paused_duration = @ + (t - tm.active_timers[decision_id].started_at),
                       !.started_at = t,
                       !.paused = FALSE]]
    ELSE tm

\* a clear that leaves the timer running
FrictionTimer_clear_keeping_timer(tm, decision_id, t) == tm

\* a clear that never trims the completed history
FrictionTimer_clear_untrimmed(tm, decision_id, t) ==
    IF decision_id \in DOMAIN tm.active_timers
    THEN LET at == tm.active_timers[decision_id]
         IN [tm EXCEPT !.active_timers = MapRemove(@, {decision_id}),
                       !.completed_timers =
                           Append(@, [decision_id |-> decision_id,
                                      review_duration |-> effective_elapsed(at, t),
                                      tier |-> at.tier,
                                      dwell_satisfied |-> ActiveTimer_is_satisfied(at, t),
                                      completed_at |-> t])]
    ELSE tm

\* FrictionTimer::clear
FrictionTimer_clear(tm, decision_id, t) ==
    IF decision_id \in DOMAIN tm.active_timers
    THEN LET at == tm.active_timers[decision_id]
             pushed == Append(tm.completed_timers,
                              [decision_id |-> decision_id,
                               review_duration |-> effective_elapsed(at, t),
                               tier |-> at.tier,
                               dwell_satisfied |-> ActiveTimer_is_satisfied(at, t),
                               completed_at |-> t])
         IN [tm EXCEPT !.active_timers = MapRemove(@, {decision_id}),
                       !.completed_timers =
                           IF Len(pushed) > 1000
                           THEN SubSeq(pushed, 501, Len(pushed))
                           ELSE pushed]
    ELSE tm

----------------------------------------------------------------------------
(* cognitive/challenge.rs : Challenge, ChallengeResponse, ChallengeVerifier *)

\* An answer string is a phrase written in upper or lower case, with or without
\* surrounding blanks.
Phrases == {"I ACKNOWLEDGE THE CONSEQUENCES", "POLICY UNDERSTOOD",
            "GUIDANCE REVIEWED", "CONFIRM", "PROCEED", "WRONG ANSWER"}

Answer(phrase, lower, padded) == [phrase |-> phrase, lower |-> lower, padded |-> padded]

\* Challenge::hash_answer: trim, lowercase, then hash; the hash of the normalized
\* string is taken to be collision free.
hash_answer(answer) == [phrase |-> answer.phrase, lower |-> TRUE, padded |-> FALSE]

ChallengeType_for_tier(tier) ==
    CASE tier = "Law" -> "Consequence"
      [] tier = "Policy" -> "Semantic"
      [] tier = "Guidance" -> "Digest"
      [] tier = "Operational" -> "Confirmation"

\* max_attempts_for_tier giving Law a third try
max_attempts_for_tier_law_three(tier) ==
    CASE tier = "Law" -> 3
      [] tier = "Policy" -> 3
      [] tier = "Guidance" -> 3
      [] tier = "Operational" -> 5

max_attempts_for_tier(tier) ==
    CASE tier = "Law" -> 2
      [] tier = "Policy" -> 3
      [] tier = "Guidance" -> 3
      [] tier = "Operational" -> 5

time_limit_for_tier(tier) ==
    CASE tier = "Law" -> 120
      [] tier = "Policy" -> 90
      [] tier = "Guidance" -> 60
      [] tier = "Operational" -> 30

\* ChallengeVerifier::generate_challenge_content: the expected answer
generate_challenge_content(tier, challenge_type) ==
    CASE tier = "Law" /\ challenge_type = "Consequence" ->
            Answer("I ACKNOWLEDGE THE CONSEQUENCES", FALSE, FALSE)
      [] tier = "Policy" /\ challenge_type = "Semantic" ->
            Answer("POLICY UNDERSTOOD", FALSE, FALSE)
      [] tier = "Guidance" /\ challenge_type = "Digest" ->
            Answer("GUIDANCE REVIEWED", FALSE, FALSE)
      [] tier = "Operational" /\ challenge_type = "Confirmation" ->
            Answer("CONFIRM", FALSE, FALSE)
      [] OTHER -> Answer("PROCEED", FALSE, FALSE)

\* Challenge::new
Challenge_new(id, challenge_type, expected, tier, t) ==
    [id |-> id,
     challenge_type |-> challenge_type,
     expected_hash |-> hash_answer(expected),
     acceptable_variations |-> {},
     max_attempts |-> max_attempts_for_tier(tier),
     time_limit |-> time_limit_for_tier(tier),
     issued_at |-> t,
     tier |-> tier]

\* Challenge::check_answer
check_answer(challenge, answer) ==
    \/ hash_answer(answer) = challenge.expected_hash
    \/ hash_answer(answer) \in challenge.acceptable_variations

\* is_expired already true at the limit itself
is_expired_at_limit(challenge, t) == t - challenge.issued_at >= challenge.time_limit

\* Challenge::is_expired
is_expired(challenge, t) == t - challenge.issued_at > challenge.time_limit

ChallengeVerifier_new ==
    [active_challenges |-> EmptyMap, attempt_counts |-> EmptyMap, challenge_counter |-> 0]

\* ChallengeVerifier::generate; the id "CH-%08X" of the counter is the counter
generate(vf, tier, t) ==
    LET id == vf.challenge_counter + 1
        challenge_type == ChallengeType_for_tier(tier)
        challenge == Challenge_new(id, challenge_type,
                                   generate_challenge_content(tier, challenge_type), tier, t)
    IN [verifier |-> [active_challenges |-> MapInsert(vf.active_challenges, id, challenge),
                      attempt_counts |-> MapInsert(vf.attempt_counts, id, 0),
                      challenge_counter |-> id],
        challenge |-> challenge]

\* ChallengeVerifier::verify: what it returns and the verifier it leaves
verify(vf, response, t) ==
    IF response.challenge_id \notin DOMAIN vf.active_challenges
    THEN [ret |-> [kind |-> "InternalError", challenge_id |-> response.challenge_id],
          verifier |-> vf]
    ELSE
    LET id == response.challenge_id
        challenge == vf.active_challenges[id]
        removed == MapRemove(vf.active_challenges, {id})
    IN
    IF is_expired(challenge, t)
    THEN [ret |-> [kind |-> "ChallengeFailure", challenge_id |-> id,
                   attempts |-> response.attempt, max_attempts |-> challenge.max_attempts],
          verifier |-> [vf EXCEPT !.active_challenges = removed]]
    ELSE
    LET attempts == (IF id \in DOMAIN vf.attempt_counts THEN vf.attempt_counts[id] ELSE 0) + 1
        counted == MapInsert(vf.attempt_counts, id, attempts)
        failure == [kind |-> "ChallengeFailure", challenge_id |-> id,
                    attempts |-> attempts, max_attempts |-> challenge.max_attempts]
    IN
    IF attempts > challenge.max_attempts
    THEN [ret |-> failure,
          verifier |-> [vf EXCEPT !.active_challenges = removed, !.attempt_counts = counted]]
    ELSE IF check_answer(challenge, response.answer)
    THEN [ret |-> [kind |-> "Ok", value |-> TRUE],
          verifier |-> [vf EXCEPT !.active_challenges = removed,
                                  !.attempt_counts = MapRemove(counted, {id})]]
    ELSE IF attempts >= challenge.max_attempts
    THEN [ret |-> failure,
          verifier |-> [vf EXCEPT !.active_challenges = removed, !.attempt_counts = counted]]
    ELSE [ret |-> [kind |-> "Ok", value |-> FALSE],
          verifier |-> [vf EXCEPT !.attempt_counts = counted]]

\* ChallengeVerifier::is_active
is_active(vf, challenge_id) == challenge_id \in DOMAIN vf.active_challenges

\* ChallengeVerifier::remaining_attempts
remaining_attempts(vf, challenge_id) ==
    IF challenge_id \notin DOMAIN vf.active_challenges
    THEN [some |-> FALSE]
    ELSE LET challenge == vf.active_challenges[challenge_id]
             used == IF challenge_id \in DOMAIN vf.attempt_counts
                     THEN vf.attempt_counts[challenge_id] ELSE 0
         IN [some |-> TRUE, value |-> saturating_sub(challenge.max_attempts, used)]

\* ChallengeVerifier::clear_expired
clear_expired(vf, t) ==
    LET expired == {id \in DOMAIN vf.active_challenges :
                       is_expired(vf.active_challenges[id], t)}
    IN [vf EXCEPT !.active_challenges = MapRemove(vf.active_challenges, expired),
                  !.attempt_counts = MapRemove(vf.attempt_counts, expired)]

----------------------------------------------------------------------------
(* cognitive/decision.rs : DecisionRequest, DecisionGate *)

None == [some |-> FALSE]

Some(v) == [some |-> TRUE, value |-> v]

\* ChallengeResponse::new (response_time is never read)
ChallengeResponse(challenge_id, answer, attempt) ==
    [challenge_id |-> challenge_id, answer |-> answer, attempt |-> attempt]

\* DecisionRequest (pac_id and summary are never read)
DecisionRequest(decision_id, tier, remember_choice, challenge_response) ==
    [decision_id |-> decision_id, tier |-> tier,
     remember_choice |-> remember_choice, challenge_response |-> challenge_response]

\* DecisionGate::new; recent_decisions holds the timestamp of each DecisionRecord
\* (its tier and review_duration are never read)
DecisionGate_new ==
    [default_tier |-> "Law",
     recent_decisions |-> <<>>,
     velocity_window |-> 60,
     max_velocity |-> 6,
     velocity_enforcement |-> TRUE]

\* DecisionGate::for_tier
DecisionGate_for_tier(tier) ==
    [DecisionGate_new EXCEPT
        !.default_tier = tier,
        !.max_velocity = CASE tier = "Law" -> 3
                           [] tier = "Policy" -> 6
                           [] tier = "Guidance" -> 10
                           [] tier = "Operational" -> 20]

\* DecisionGate::set_velocity_enforcement (test-mode builds only)
set_velocity_enforcement(dg, enabled) == [dg EXCEPT !.velocity_enforcement = enabled]

clean_old_decisions_never(dg, t) == dg

\* DecisionGate::clean_old_decisions: pop the front while it is older than the window
RECURSIVE clean_old_decisions(_, _)
clean_old_decisions(dg, t) ==
    IF dg.recent_decisions # <<>> /\ Head(dg.recent_decisions) < t - dg.velocity_window
    THEN clean_old_decisions([dg EXCEPT !.recent_decisions = Tail(@)], t)
    ELSE dg

\* DecisionGate::count_recent_decisions
count_recent_decisions(dg, t) ==
    Cardinality({i \in 1..Len(dg.recent_decisions) :
                    dg.recent_decisions[i] >= t - dg.velocity_window})

\* DecisionGate::current_velocity: count / (window seconds / 60), decisions per minute
current_velocity(dg, t) == (count_recent_decisions(dg, t) * 60) \div dg.velocity_window

\* DecisionGate::would_reject
would_reject(dg, t) == dg.velocity_enforcement /\ current_velocity(dg, t) >= dg.max_velocity

\* DecisionGate::time_until_allowed
time_until_allowed(dg, t) ==
    IF ~dg.velocity_enforcement \/ current_velocity(dg, t) < dg.max_velocity
    THEN 0
    ELSE IF dg.recent_decisions # <<>>
         THEN saturating_sub(dg.velocity_window, t - Head(dg.recent_decisions))
         ELSE 0

record_decision_above_max(dg, request, t) ==
    LET cleaned == clean_old_decisions(dg, t)
        velocity == current_velocity(cleaned, t)
    IN IF cleaned.velocity_enforcement /\ velocity > cleaned.max_velocity
       THEN [ret |-> [kind |-> "VelocityViolation",
                      decisions_per_minute |-> velocity,
                      max_safe_velocity |-> cleaned.max_velocity],
             decision_gate |-> cleaned]
       ELSE [ret |-> [kind |-> "Ok"],
             decision_gate |-> [cleaned EXCEPT !.recent_decisions = Append(@, t)]]

\* DecisionGate::record_decision: what it returns and the gate it leaves
record_decision(dg, request, t) ==
    LET cleaned == clean_old_decisions(dg, t)
        velocity == current_velocity(cleaned, t)
    IN IF cleaned.velocity_enforcement /\ velocity >= cleaned.max_velocity
       THEN [ret |-> [kind |-> "VelocityViolation",
                      decisions_per_minute |-> velocity,
                      max_safe_velocity |-> cleaned.max_velocity],
             decision_gate |-> cleaned]
       ELSE [ret |-> [kind |-> "Ok"],
             decision_gate |-> [cleaned EXCEPT !.recent_decisions = Append(@, t)]]

----------------------------------------------------------------------------
(* cognitive/mod.rs : CognitiveGate *)

CognitiveGate_new ==
    [timer |-> FrictionTimer_new,
     verifier |-> ChallengeVerifier_new,
     decision_gate |-> DecisionGate_new,
     armed |-> TRUE]

CognitiveGate_for_tier(tier) ==
    [CognitiveGate_new EXCEPT !.decision_gate = DecisionGate_for_tier(tier)]

\* submit_decision verifying the challenge response ahead of the dwell check
submit_decision_challenge_first(g, request, t) ==
    LET keep == [timer |-> g.timer, verifier |-> g.verifier,
                 decision_gate |-> g.decision_gate]
        timer_state == FrictionTimer_check(g.timer, request.decision_id, t)
        dwell == minimum_dwell(request.tier)
        verified == verify(g.verifier, request.challenge_response.value, t)
        after_verify == IF request.challenge_response.some THEN verified.verifier
                        ELSE g.verifier
        challenge_passed == IF request.challenge_response.some THEN verified.ret.value
                            ELSE FALSE
        recorded == record_decision(g.decision_gate, request, t)
    IN
    IF ~g.armed
    THEN [ret |-> [kind |-> "Approved", decision_id |-> request.decision_id,
                   review_duration |-> 0, challenge_passed |-> FALSE]] @@ keep
    ELSE IF ~timer_state.ok
    THEN [ret |-> [kind |-> "TimerNotStarted"]] @@ keep
    ELSE IF request.challenge_response.some /\ verified.ret.kind # "Ok"
    THEN [ret |-> verified.ret, timer |-> g.timer, verifier |-> after_verify,
          decision_gate |-> g.decision_gate]
    ELSE IF timer_state.state.elapsed < dwell
    THEN [ret |-> [kind |-> "DwellTimeViolation", required |-> dwell,
                   actual |-> timer_state.state.elapsed, tier |-> request.tier],
          timer |-> g.timer, verifier |-> after_verify, decision_gate |-> g.decision_gate]
    ELSE IF requires_challenge(request.tier) /\ ~request.challenge_response.some
    THEN [ret |-> [kind |-> "ChallengeRequired", tier |-> request.tier]] @@ keep
    ELSE IF request.remember_choice /\ ~allows_remember_shortcut(request.tier)
    THEN [ret |-> [kind |-> "RememberShortcutForbidden", tier |-> request.tier],
          timer |-> g.timer, verifier |-> after_verify, decision_gate |-> g.decision_gate]
    ELSE IF recorded.ret.kind # "Ok"
    THEN [ret |-> recorded.ret, timer |-> g.timer, verifier |-> after_verify,
          decision_gate |-> recorded.decision_gate]
    ELSE [ret |-> [kind |-> "Approved", decision_id |-> request.decision_id,
                   review_duration |-> timer_state.state.elapsed,
                   challenge_passed |-> challenge_passed],
          timer |-> FrictionTimer_clear(g.timer, request.decision_id, t),
          verifier |-> after_verify,
          decision_gate |-> recorded.decision_gate]

\* CognitiveGate::submit_decision on gate g at clock t: what it returns and the
\* timer, verifier and decision gate it leaves
submit_decision(g, request, t) ==
    LET keep == [timer |-> g.timer, verifier |-> g.verifier,
                 decision_gate |-> g.decision_gate]
        timer_state == FrictionTimer_check(g.timer, request.decision_id, t)
        dwell == minimum_dwell(request.tier)
        verified == verify(g.verifier, request.challenge_response.value, t)
        after_verify == IF request.challenge_response.some THEN verified.verifier
                        ELSE g.verifier
        challenge_passed == IF request.challenge_response.some THEN verified.ret.value
                            ELSE FALSE
        recorded == record_decision(g.decision_gate, request, t)
    IN
    IF ~g.armed
    THEN [ret |-> [kind |-> "Approved", decision_id |-> request.decision_id,
                   review_duration |-> 0, challenge_passed |-> FALSE]] @@ keep
    ELSE IF ~timer_state.ok
    THEN [ret |-> [kind |-> "TimerNotStarted"]] @@ keep
    ELSE IF timer_state.state.elapsed < dwell
    THEN [ret |-> [kind |-> "DwellTimeViolation", required |-> dwell,
                   actual |-> timer_state.state.elapsed, tier |-> request.tier]] @@ keep
    ELSE IF requires_challenge(request.tier) /\ ~request.challenge_response.some
    THEN [ret |-> [kind |-> "ChallengeRequired", tier |-> request.tier]] @@ keep
    ELSE IF request.challenge_response.some /\ verified.ret.kind # "Ok"
    THEN [ret |-> verified.ret, timer |-> g.timer, verifier |-> after_verify,
          decision_gate |-> g.decision_gate]
    ELSE IF request.remember_choice /\ ~allows_remember_shortcut(request.tier)
    THEN [ret |-> [kind |-> "RememberShortcutForbidden", tier |-> request.tier],
          timer |-> g.timer, verifier |-> after_verify, decision_gate |-> g.decision_gate]
    ELSE IF recorded.ret.kind # "Ok"
    THEN [ret |-> recorded.ret, timer |-> g.timer, verifier |-> after_verify,
          decision_gate |-> recorded.decision_gate]
    ELSE [ret |-> [kind |-> "Approved", decision_id |-> request.decision_id,
                   review_duration |-> timer_state.state.elapsed,
                   challenge_passed |-> challenge_passed],
          timer |-> FrictionTimer_clear(g.timer, request.decision_id, t),
          verifier |-> after_verify,
          decision_gate |-> recorded.decision_gate]

\* the gate the variables hold
gate == [timer |-> timer, verifier |-> verifier,
         decision_gate |-> decision_gate, armed |-> armed]

----------------------------------------------------------------------------
(* models.rs, error.rs : results *)

GovernanceTier == {"Law", "Policy", "Guidance", "Operational"}

GovernanceTier_as_str(tier) ==
    CASE tier = "Law" -> "LAW"
      [] tier = "Policy" -> "POLICY"
      [] tier = "Guidance" -> "GUIDANCE"
      [] tier = "Operational" -> "OPERATIONAL"

Ok(v) == [ok |-> TRUE, value |-> v]

Err(e) == [ok |-> FALSE, error |-> e]

GateResult(g, passed, message, t) ==
    [gate |-> g, passed |-> passed, message |-> message, timestamp |-> t]

----------------------------------------------------------------------------
(* friction.rs : dwell times of the validator's friction gate *)

dwell_times_law == 5

dwell_times_policy == 3

dwell_times_guidance == 2

dwell_times_operational == 1

dwell_times_for_tier(tier) ==
    CASE tier = "Law" -> dwell_times_law
      [] tier = "Policy" -> dwell_times_policy
      [] tier = "Guidance" -> dwell_times_guidance
      [] tier = "Operational" -> dwell_times_operational

DwellVerification_new(satisfied, required, elapsed, tier) ==
    [satisfied |-> satisfied, required |-> required, elapsed |-> elapsed,
     remaining |-> IF satisfied THEN 0 ELSE required - elapsed,
     tier |-> tier]

\* DwellVerification::message: the text and the values formatted into it
DwellVerification_message(v) ==
    IF v.satisfied
    THEN <<"Dwell time satisfied: ", ToString(v.elapsed), ".0s elapsed >= ",
           ToString(v.required), ".0s required for ", GovernanceTier_as_str(v.tier),
           " tier">>
    ELSE <<"DWELL_TIME_VIOLATION: ", ToString(v.elapsed), ".0s elapsed < ",
           ToString(v.required), ".0s required for ", GovernanceTier_as_str(v.tier),
           " tier. ", ToString(v.remaining),
           ".0s remaining. Speed interpreted as negligence.">>

verify_dwell_time_clamped(admission_ts, tier, t) ==
    LET elapsed == IF t < admission_ts THEN 0 ELSE t - admission_ts
        required == dwell_times_for_tier(tier)
    IN Ok(DwellVerification_new(elapsed >= required, required, elapsed, tier))

\* DefaultFrictionGate::verify_dwell_time at clock t
verify_dwell_time(admission_ts, tier, t) ==
    LET elapsed == t - admission_ts IN
    IF elapsed < 0
    THEN Err([kind |-> "SystemTimeError",
              message |-> "Clock skew detected: admission timestamp is in the future"])
    ELSE LET required == dwell_times_for_tier(tier)
             satisfied == elapsed >= required
         IN Ok(DwellVerification_new(satisfied, required, elapsed, tier))

\* DefaultFrictionGate::gate_g9_cognitive_friction at clock t
gate_g9_cognitive_friction(admission_ts, tier, t) ==
    LET verification == verify_dwell_time(admission_ts, tier, t) IN
    IF ~verification.ok THEN verification
    ELSE Ok(GateResult("G9CognitiveFriction", verification.value.satisfied,
                       DwellVerification_message(verification.value), t))

----------------------------------------------------------------------------
(* Strings: a String is the sequence of its pieces, compared piece by piece *)

starts_with(str, prefix) ==
    Len(str) >= Len(prefix) /\ SubSeq(str, 1, Len(prefix)) = prefix

contains(str, pattern) ==
    \E i \in 1..(Len(str) - Len(pattern) + 1) :
        SubSeq(str, i, i + Len(pattern) - 1) = pattern

RECURSIVE join(_, _)
join(strs, separator) ==
    IF strs = <<>> THEN <<>>
    ELSE IF Len(strs) = 1 THEN Head(strs)
    ELSE Head(strs) \o separator \o join(Tail(strs), separator)

\* Sha256 then hex::encode: the digest stands for exactly the bytes hashed,
\* and the encoding is lower-case hexadecimal
Sha256_hex(bytes) == [digest |-> bytes, upper_case |-> FALSE]

----------------------------------------------------------------------------
(* models.rs : BlockType, Block, Pac, PreflightGate, Pdo *)

BlockType_all == [i \in 1..23 |-> i - 1]

\* lib.rs: PAC_BLOCK_COUNT, "Number of blocks in a valid PAC"
PAC_BLOCK_COUNT == 20

PositiveClosureAndFinalState == 19

Block(index, block_type, content) ==
    [index |-> index, block_type |-> block_type, content |-> content]

is_index_valid(b) == b.index = b.block_type

PacMetadata(pac_id, governance_tier, issuer_gid, drift_tolerance, schema_version) ==
    [pac_id |-> pac_id, governance_tier |-> governance_tier, issuer_gid |-> issuer_gid,
     drift_tolerance |-> drift_tolerance, schema_version |-> schema_version]

Pac(metadata, blocks, content_hash) ==
    [metadata |-> metadata, blocks |-> blocks, content_hash |-> content_hash]

has_complete_blocks(p) == Len(p.blocks) = 23

all_indices_valid(p) == \A i \in 1..Len(p.blocks) : is_index_valid(p.blocks[i])

PreflightGate_all ==
    <<"G1StructuralLint", "G2GovernanceTierValidation", "G3ConstitutionalContinuityCheck",
      "G4BlockIndexIntegrity", "G5ContentHashVerification", "G6IssuerAuthorizationCheck",
      "G7DriftToleranceEnforcement", "G8FinalStateAssertion", "G9CognitiveFriction">>

PdoOutcome == {"Approved", "Rejected", "RequiresReview", "Error"}

all_gates_passed(pdo) == \A i \in 1..Len(pdo.gate_results) : pdo.gate_results[i].passed

----------------------------------------------------------------------------
(* validator.rs : ConstitutionalValidator *)

executor_gid == <<"GID-", "00-EXEC">>

\* ConstitutionalValidator::new
ConstitutionalValidator_new(gid) == [executor_gid |-> gid]

\* the validator the calls are made on
validator == ConstitutionalValidator_new(executor_gid)

RECURSIVE content_bytes(_)
content_bytes(blocks) ==
    IF blocks = <<>> THEN <<>> ELSE Head(blocks).content \o content_bytes(Tail(blocks))

\* a content hash of the artifact id alone
compute_content_hash_of_id(p) == Sha256_hex(p.metadata.pac_id)

compute_content_hash(p) == Sha256_hex(p.metadata.pac_id \o content_bytes(p.blocks))

RECURSIVE decision_bytes(_)
decision_bytes(gate_results) ==
    IF gate_results = <<>> THEN <<>>
    ELSE <<IF Head(gate_results).passed THEN "1" ELSE "0">>
         \o Head(gate_results).message \o decision_bytes(Tail(gate_results))

\* decision_bytes with the timestamp of each gate result hashed as well
RECURSIVE decision_bytes_with_timestamps(_)
decision_bytes_with_timestamps(gate_results) ==
    IF gate_results = <<>> THEN <<>>
    ELSE <<IF Head(gate_results).passed THEN "1" ELSE "0">>
         \o Head(gate_results).message \o <<ToString(Head(gate_results).timestamp)>>
         \o decision_bytes_with_timestamps(Tail(gate_results))

\* compute_decision_hash hashing the gate-result timestamps as well
compute_decision_hash_with_timestamps(v, p, gate_results) ==
    Sha256_hex(p.metadata.pac_id \o decision_bytes_with_timestamps(gate_results))

\* ConstitutionalValidator::compute_decision_hash on validator v (&self), which
\* it does not read
compute_decision_hash(v, p, gate_results) ==
    Sha256_hex(p.metadata.pac_id \o decision_bytes(gate_results))

gate_g1_structural_lint(p, t) ==
    LET passed == has_complete_blocks(p) IN
    GateResult("G1StructuralLint", passed,
               IF passed THEN <<"PAC has exactly 23 blocks (v2.1.4 schema)">>
               ELSE <<"PAC has ", ToString(Len(p.blocks)), " blocks, expected 23 (v2.1.4)">>,
               t)

gate_g2_governance_tier(p, t) ==
    LET tier == p.metadata.governance_tier IN
    GateResult("G2GovernanceTierValidation",
               tier \in {"Law", "Policy", "Guidance", "Operational"},
               <<"Governance tier '", GovernanceTier_as_str(tier), "' validated">>, t)

gate_g3_constitutional_continuity(p, t) ==
    LET schema == p.metadata.schema_version
        passed == \/ starts_with(schema, <<"CHAINBRIDGE_PAC_SCHEMA_v", "1", ".">>)
                  \/ starts_with(schema, <<"CHAINBRIDGE_PAC_SCHEMA_v", "2", ".">>)
    IN GateResult("G3ConstitutionalContinuityCheck", passed,
                  IF passed
                  THEN <<"Schema version '">> \o schema \o <<"' is compatible">>
                  ELSE <<"Schema version '">> \o schema
                          \o <<"' is not compatible with v1.x or v2.x">>,
                  t)

gate_g4_block_index_integrity(p, t) ==
    LET passed == all_indices_valid(p)
        invalid == SelectSeq(p.blocks, LAMBDA b : ~is_index_valid(b))
        mismatched == [i \in 1..Len(invalid) |->
                          <<"Block ", ToString(invalid[i].index), " has type ",
                            ToString(invalid[i].block_type)>>]
    IN GateResult("G4BlockIndexIntegrity", passed,
                  IF passed THEN <<"All block indices match their block types">>
                  ELSE <<"Block index mismatch: ">> \o join(mismatched, <<", ">>),
                  t)

\* a hexadecimal string as it is written in a message
hex_text(h) == <<IF h.upper_case THEN "HEX:" ELSE "hex:">> \o h.digest

\* G5 failing an artifact that declares no content hash
gate_g5_content_hash_required(p, t) ==
    IF p.content_hash.some /\ compute_content_hash(p) = p.content_hash.value
    THEN GateResult("G5ContentHashVerification", TRUE, <<"Content hash verified">>, t)
    ELSE GateResult("G5ContentHashVerification", FALSE, <<"Content hash missing">>, t)

gate_g5_content_hash(p, t) ==
    IF p.content_hash.some
    THEN LET expected_hash == p.content_hash.value
             computed == compute_content_hash(p)
         IN IF computed = expected_hash
            THEN GateResult("G5ContentHashVerification", TRUE,
                            <<"Content hash verified">>, t)
            ELSE GateResult("G5ContentHashVerification", FALSE,
                            <<"Content hash mismatch: expected ">> \o hex_text(expected_hash)
                               \o <<", got ">> \o hex_text(computed), t)
    ELSE GateResult("G5ContentHashVerification", TRUE,
                    <<"No content hash provided (optional)">>, t)

gate_g6_issuer_authorization(p, t) ==
    LET gid == p.metadata.issuer_gid
        passed == starts_with(gid, <<"GID-">>)
    IN GateResult("G6IssuerAuthorizationCheck", passed,
                  IF passed
                  THEN <<"Issuer GID '">> \o gid \o <<"' has valid format">>
                  ELSE <<"Issuer GID '">> \o gid \o <<"' does not match GID-XX pattern">>,
                  t)

gate_g7_drift_tolerance(p, t) ==
    LET drift == p.metadata.drift_tolerance
        tier == p.metadata.governance_tier
        passed == IF tier = "Law" THEN drift = <<"ZERO">> ELSE TRUE
    IN GateResult("G7DriftToleranceEnforcement", passed,
                  IF passed
                  THEN <<"Drift tolerance '">> \o drift \o <<"' is valid for tier '",
                         GovernanceTier_as_str(tier), "'">>
                  ELSE <<"LAW tier requires ZERO drift tolerance, got '">> \o drift
                          \o <<"'">>,
                  t)

gate_g8_final_state(p, t) ==
    LET finals == SelectSeq(p.blocks,
                            LAMBDA b : b.block_type = PositiveClosureAndFinalState)
    IN IF finals # <<>>
       THEN IF contains(Head(finals).content, <<"execution_blocking">>)
            THEN GateResult("G8FinalStateAssertion", TRUE,
                            <<"FINAL_STATE contains execution_blocking assertion">>, t)
            ELSE GateResult("G8FinalStateAssertion", FALSE,
                            <<"FINAL_STATE missing execution_blocking assertion">>, t)
       ELSE GateResult("G8FinalStateAssertion", FALSE,
                       <<"FINAL_STATE block not found">>, t)

\* ConstitutionalValidator::gate_g9_cognitive_friction
validator_gate_g9_cognitive_friction(p, admission_ts, t) ==
    gate_g9_cognitive_friction(admission_ts, p.metadata.governance_tier, t)

validate_preflight_stopping_at_failure(v, p, admission_ts, t) ==
    LET g == <<gate_g1_structural_lint(p, t), gate_g2_governance_tier(p, t),
               gate_g3_constitutional_continuity(p, t),
               gate_g4_block_index_integrity(p, t), gate_g5_content_hash(p, t),
               gate_g6_issuer_authorization(p, t), gate_g7_drift_tolerance(p, t),
               gate_g8_final_state(p, t)>>
        failed == {i \in 1..8 : ~g[i].passed}
        first == CHOOSE i \in failed : \A j \in failed : i <= j
        g9 == validator_gate_g9_cognitive_friction(p, admission_ts, t)
        gate_results == IF failed = {} THEN Append(g, g9.value) ELSE SubSeq(g, 1, first)
    IN IF ~g9.ok THEN g9
       ELSE Ok([pac_id |-> p.metadata.pac_id,
                outcome |-> IF failed = {} /\ g9.value.passed THEN "Approved"
                            ELSE "Rejected",
                gate_results |-> gate_results,
                decision_timestamp |-> t,
                decision_hash |-> compute_decision_hash(v, p, gate_results),
                executor_gid |-> v.executor_gid])

validate_preflight_ignoring_g9(v, p, admission_ts, t) ==
    LET g == <<gate_g1_structural_lint(p, t), gate_g2_governance_tier(p, t),
               gate_g3_constitutional_continuity(p, t),
               gate_g4_block_index_integrity(p, t), gate_g5_content_hash(p, t),
               gate_g6_issuer_authorization(p, t), gate_g7_drift_tolerance(p, t),
               gate_g8_final_state(p, t)>>
        g9 == validator_gate_g9_cognitive_friction(p, admission_ts, t)
        gate_results == Append(g, g9.value)
    IN IF ~g9.ok THEN g9
       ELSE Ok([pac_id |-> p.metadata.pac_id,
                outcome |-> IF \A i \in 1..8 : g[i].passed THEN "Approved" ELSE "Rejected",
                gate_results |-> gate_results,
                decision_timestamp |-> t,
                decision_hash |-> compute_decision_hash(v, p, gate_results),
                executor_gid |-> v.executor_gid])

\* ConstitutionalValidator::validate_preflight_with_friction at clock t
validate_preflight_with_friction(v, p, admission_ts, t) ==
    LET g == <<gate_g1_structural_lint(p, t), gate_g2_governance_tier(p, t),
               gate_g3_constitutional_continuity(p, t),
               gate_g4_block_index_integrity(p, t), gate_g5_content_hash(p, t),
               gate_g6_issuer_authorization(p, t), gate_g7_drift_tolerance(p, t),
               gate_g8_final_state(p, t)>>
        g9 == validator_gate_g9_cognitive_friction(p, admission_ts, t)
        gate_results == Append(g, g9.value)
        all_passed == \A i \in 1..Len(gate_results) : gate_results[i].passed
    IN IF ~g9.ok THEN g9
       ELSE Ok([pac_id |-> p.metadata.pac_id,
                outcome |-> IF all_passed THEN "Approved" ELSE "Rejected",
                gate_results |-> gate_results,
                decision_timestamp |-> t,
                decision_hash |-> compute_decision_hash(v, p, gate_results),
                executor_gid |-> v.executor_gid])

\* a validate_preflight whose admission timestamp is the start of the clock
validate_preflight_stamped_at_epoch(v, p, stamped, t) ==
    validate_preflight_with_friction(v, p, 0, t)

\* ConstitutionalValidator::validate_preflight: AdmissionTimestamp::now() reads
\* the clock as stamped, the gates that follow read it as t
validate_preflight(v, p, stamped, t) ==
    validate_preflight_with_friction(v, p, stamped, t)

\* lib.rs validate: a validator made for the call, then validate_preflight
validate(p, gid, stamped, t) ==
    validate_preflight(ConstitutionalValidator_new(gid), p, stamped, t)

----------------------------------------------------------------------------
(* Inputs *)

AnswerInputs ==
    {Answer("I ACKNOWLEDGE THE CONSEQUENCES", TRUE, TRUE),
     Answer("POLICY UNDERSTOOD", FALSE, FALSE),
     Answer("WRONG ANSWER", FALSE, FALSE)}

\* a response names a challenge that was issued, or the next one, not issued yet
ResponseInputs ==
    {None} \cup {Some(ChallengeResponse(c, a, 1)) :
                    c \in 1..(verifier.challenge_counter + 1), a \in AnswerInputs}

Requests ==
    {DecisionRequest(id, tier, remember, response) :
        id \in DecisionIds, tier \in FrictionTier,
        remember \in BOOLEAN, response \in ResponseInputs}

\* the tiers reviews are started at where challenges are in play
ReviewTiers == {"Law", "Guidance"}

\* requests that carry no challenge response
PlainRequests ==
    {DecisionRequest(id, tier, remember, None) :
        id \in DecisionIds, tier \in FrictionTier, remember \in BOOLEAN}

\* reviews finished or running, but for the one start_review would restart
Reviews(decision_id) ==
    Len(timer.completed_timers)
    + Cardinality((DOMAIN timer.active_timers) \ {decision_id})

\* reviews plus challenges issued
Sessions(decision_id) == Reviews(decision_id) + verifier.challenge_counter

----------------------------------------------------------------------------
(* main.rs: the process supervisor *)

\* SentinelConfig::default, the fields run_sentinel's loop reads
SentinelConfig_default == [max_failures |-> 3, fail_closed |-> TRUE]

\* run_sentinel not called
NoSentinel ==
    /\ sentinel = [pc |-> "off"]
    /\ polls = <<>>

----------------------------------------------------------------------------
(* ledger.rs: the governance ledger and its atomic writer *)

\* the number of append_entry calls each writer makes
MaxAppends == 2

\* the writer threads appending to one ledger
Writers == {1, 2}

\* GovernanceLedger::default (last_updated is a time stamp no step reads)
GovernanceLedger_default ==
    [version |-> "1.0.0", current_sequence |-> 0, entries |-> <<>>]

\* create_wrap_entry: the entry a caller hands over, its sequence still 0
create_wrap_entry(wrap_id) ==
    [sequence |-> 0, entry_type |-> <<"WRAP">>, entry_id |-> wrap_id]

\* try_lock_exclusive without the exclusion: every attempt takes the lock
try_lock_shared(holders) == TRUE

\* fs2 try_lock_exclusive on the lock file: granted when nobody holds it
try_lock_exclusive(holders) == holders = {}

\* AtomicLedgerWriter::read_ledger with create_if_missing: a missing file reads as
\* the default ledger; io is "ok", or the error opening, reading or parsing met
read_ledger(fs, io) ==
    IF ~fs.ledger.some THEN Ok(GovernanceLedger_default)
    ELSE IF io # "ok" THEN Err(io)
    ELSE Ok(fs.ledger.value)

\* append_entry, steps 3 to 5: the next sequence number, the entry check and the
\* updated ledger that will be written
append_to(ledger, entry) ==
    LET next_seq == ledger.current_sequence + 1
    IN  IF entry.entry_id = <<>> \/ entry.entry_type = <<>>
        THEN Err("InvalidEntry")
        ELSE Ok([next_seq |-> next_seq,
                 ledger |-> [ledger EXCEPT !.current_sequence = next_seq,
                                           !.entries = Append(@, [entry EXCEPT !.sequence = next_seq])]])

\* a writer thread outside append_entry
Idle(calls) == [pc |-> "idle", calls |-> calls]

\* a fresh directory, as in test_atomic_write_concurrent: no ledger file, no
\* temporary file, the lock file held by nobody, no call made
NoLedger ==
    /\ files = [ledger |-> None, temp |-> None, lock |-> {}]
    /\ writers = [w \in Writers |-> Idle(0)]
    /\ returned = <<>>

----------------------------------------------------------------------------
(* Operations of the cognitive gate *)

\* no verify call has been made
NoHistory ==
    /\ resolved = {}
    /\ evaluated = EmptyMap
    /\ review_log = EmptyMap

Init ==
    /\ now = 0
    /\ timer = CognitiveGate_new.timer
    /\ verifier = CognitiveGate_new.verifier
    /\ decision_gate = CognitiveGate_new.decision_gate
    /\ armed = CognitiveGate_new.armed
    /\ result = [op |-> "new"]
    /\ failed_reviews = {}
    /\ velocity_rejected = FALSE
    /\ NoHistory
    /\ NoLedger
    /\ approved_reviews = {}
    /\ NoSentinel
    /\ pac = None

\* CognitiveGate::start_review
StartReview(decision_id, tier) ==
    /\ timer' \in FrictionTimer_start(timer, decision_id, tier, now)
    /\ result' = [op |-> "start_review", decision_id |-> decision_id, tier |-> tier]
    /\ failed_reviews' = failed_reviews \ {decision_id}
    /\ approved_reviews' = approved_reviews \ {decision_id}
    /\ UNCHANGED <<now, verifier, decision_gate, armed, velocity_rejected, pac, history, ledger_state, sentinel_state>>

\* CognitiveGate::generate_challenge
GenerateChallenge(tier) ==
    /\ IF requires_challenge(tier) \/ challenge_recommended(tier)
       THEN LET g == generate(verifier, tier, now) IN
            /\ verifier' = g.verifier
            /\ result' = [op |-> "generate_challenge", tier |-> tier,
                          challenge |-> Some(g.challenge)]
       ELSE /\ verifier' = verifier
            /\ result' = [op |-> "generate_challenge", tier |-> tier, challenge |-> None]
    /\ UNCHANGED <<now, timer, decision_gate, armed, failed_reviews, velocity_rejected, pac, history, ledger_state, approved_reviews, sentinel_state>>

\* CognitiveGate::submit_decision
SubmitDecision(request) ==
    /\ \E out \in {submit_decision(gate, request, now)} :
         /\ timer' = out.timer
         /\ verifier' = out.verifier
         /\ decision_gate' = out.decision_gate
         /\ result' = [op |-> "submit_decision", decision_id |-> request.decision_id,
                       tier |-> request.tier,
                       remember_choice |-> request.remember_choice,
                       response_to |-> IF request.challenge_response.some
                                       THEN Some(request.challenge_response.value.challenge_id)
                                       ELSE None,
                       ret |-> out.ret]
         /\ failed_reviews' = IF out.ret.kind = "ChallengeFailure"
                              THEN failed_reviews \cup {request.decision_id}
                              ELSE failed_reviews
         /\ velocity_rejected' = (velocity_rejected \/ out.ret.kind = "VelocityViolation")
         /\ approved_reviews' = IF armed /\ out.ret.kind = "Approved"
                                THEN approved_reviews \cup {request.decision_id}
                                ELSE approved_reviews
    /\ UNCHANGED <<now, armed, pac, history, ledger_state, sentinel_state>>

\* an arm() that leaves the switch off
Arm_leaving_disarmed ==
    /\ armed' = FALSE
    /\ result' = [op |-> "arm"]
    /\ UNCHANGED <<now, timer, verifier, decision_gate, failed_reviews, velocity_rejected, pac, history, ledger_state, approved_reviews, sentinel_state>>

\* CognitiveGate::arm
Arm ==
    /\ armed' = TRUE
    /\ result' = [op |-> "arm"]
    /\ UNCHANGED <<now, timer, verifier, decision_gate, failed_reviews, velocity_rejected, pac, history, ledger_state, approved_reviews, sentinel_state>>

\* CognitiveGate::disarm (test-mode builds only)
Disarm ==
    /\ armed' = FALSE
    /\ result' = [op |-> "disarm"]
    /\ UNCHANGED <<now, timer, verifier, decision_gate, failed_reviews, velocity_rejected, pac, history, ledger_state, approved_reviews, sentinel_state>>

\* the clock advances by one second
Tick ==
    /\ now < MaxTime
    /\ now' = now + 1
    /\ result' = [op |-> "tick"]
    /\ UNCHANGED <<timer, verifier, decision_gate, armed, failed_reviews, velocity_rejected, pac, history, ledger_state, approved_reviews, sentinel_state>>

\* the clock advances by the longest dwell minimum
Wait ==
    /\ now < MaxTicks * minimum_dwell("Law")
    /\ now' = now + minimum_dwell("Law")
    /\ result' = [op |-> "tick"]
    /\ UNCHANGED <<timer, verifier, decision_gate, armed, failed_reviews, velocity_rejected, pac, history, ledger_state, approved_reviews, sentinel_state>>

\* The cognitive gate with challenges; the clock advances by whole dwells.
Next ==
    \/ \E id \in DecisionIds, tier \in ReviewTiers :
          Sessions(id) < MaxSessions /\ StartReview(id, tier)
    \/ \E tier \in FrictionTier :
          Sessions("") < MaxSessions /\ GenerateChallenge(tier)
    \/ \E request \in Requests : SubmitDecision(request)
    \/ Wait

Spec == Init /\ [][Next]_vars

\* the friction gate of the validator asked for G9 on its own
GateG9(admission_ts, tier) ==
    /\ result' = [op |-> "gate_g9_cognitive_friction", admission_ts |-> admission_ts,
                  tier |-> tier,
                  ret |-> gate_g9_cognitive_friction(admission_ts, tier, now)]
    /\ UNCHANGED <<now, timer, verifier, decision_gate, armed, failed_reviews, velocity_rejected, pac, history, ledger_state, approved_reviews, sentinel_state>>

\* admission timestamps: the first instant, the last one, and one still to come
AdmissionInputs == {0, now, now + 1}

\* Dwell times second by second: reviews without challenges, and the friction
\* gate of the validator.
NextDwell ==
    \/ \E id \in DecisionIds, tier \in FrictionTier :
          Reviews(id) < MaxReviews /\ StartReview(id, tier)
    \/ \E request \in PlainRequests : SubmitDecision(request)
    \/ \E admission_ts \in AdmissionInputs, tier \in GovernanceTier :
          GateG9(admission_ts, tier)
    \/ Tick

SpecDwell == Init /\ [][NextDwell]_vars

----------------------------------------------------------------------------
(* Properties of the cognitive gate (Spec) *)

Submitted == result.op = "submit_decision"

Approved == Submitted /\ result.ret.kind = "Approved"

\* C4: a Law-tier decision is Approved only when its request carried a
\* challenge response that verification found correct; an incorrect answer
\* never yields Approved.
C4_LawApprovedOnlyWithCorrectAnswer ==
    (Approved /\ result.tier = "Law") => result.ret.challenge_passed

\* C7: once a challenge has ended in ChallengeFailure during submit_decision
\* for a decision id, no later submit_decision for that id is Approved unless
\* start_review was called again for it.
C7_NoApprovalAfterChallengeFailure ==
    Approved => result.ret.decision_id \notin failed_reviews

\* C8: a request with remember_choice = true is never Approved at Law or Policy
\* tier, and at Guidance or Operational tier it is Approved exactly when the
\* same request with remember_choice = false would be.
C8_RememberShortcut ==
    /\ (Submitted /\ result.remember_choice /\ result.tier \in {"Law", "Policy"})
          => result.ret.kind # "Approved"
    /\ \A request \in Requests :
          request.tier \in {"Guidance", "Operational"} =>
             LET with == submit_decision(gate, [request EXCEPT !.remember_choice = TRUE], now)
                 without == submit_decision(gate, [request EXCEPT !.remember_choice = FALSE], now)
             IN (with.ret.kind = "Approved") <=> (without.ret.kind = "Approved")

\* a Law-tier request asking to remember the choice was refused for that
\* reason alone: its dwell time had passed and its answer was correct
C8_Witness ==
    /\ Submitted /\ result.remember_choice /\ result.tier = "Law"
    /\ result.ret.kind = "RememberShortcutForbidden"
    /\ verifier.challenge_counter > 0
    /\ DOMAIN verifier.active_challenges = {}
    /\ DOMAIN verifier.attempt_counts = {}

----------------------------------------------------------------------------
(* Properties of dwell times (SpecDwell) *)

\* the review that the last clear of a timer closed
LastCompleted == timer.completed_timers[Len(timer.completed_timers)]

\* C5: a decision whose review was started as Law tier is never Approved
\* earlier than 5 seconds after start_review, whatever tier the request declares.
C5_LawReviewNeverApprovedEarly ==
    (Approved /\ LastCompleted.tier = "Law") => LastCompleted.review_duration >= 5

\* the dwell minimums as the specification gives them, in seconds
SpecifiedMinimum == [Law |-> 5, Policy |-> 3, Guidance |-> 2, Operational |-> 1]

\* a submit_decision step whose request declares the tier the running review
\* of its decision was started with
SubmitsAtTimerTier ==
    /\ result'.op = "submit_decision"
    /\ result'.decision_id \in DOMAIN timer.active_timers
    /\ timer.active_timers[result'.decision_id].requirement.tier = result'.tier

\* C6: the dwell boundary is inclusive. A decision whose elapsed dwell equals
\* its tier's minimum is not rejected for dwell time and one below it is, both
\* in submit_decision (request tier = tier of the review) and in the
\* validator's G9, which compares the same way against the same minimums.
C6_DwellBoundaryInclusive ==
    /\ [][SubmitsAtTimerTier =>
            LET elapsed == now - timer.active_timers[result'.decision_id].started_at
            IN (result'.ret.kind = "DwellTimeViolation")
                  <=> (elapsed < SpecifiedMinimum[result'.tier])]_vars
    /\ [](result.op = "gate_g9_cognitive_friction" /\ result.admission_ts <= now
            => /\ result.ret.ok
               /\ result.ret.value.passed
                     <=> (now - result.admission_ts >= SpecifiedMinimum[result.tier]))

\* a Policy review approved in the very second its dwell minimum was reached
C6_Witness ==
    /\ Approved /\ result.tier = "Policy"
    /\ LastCompleted.tier = "Policy"
    /\ result.ret.review_duration = 3

----------------------------------------------------------------------------
(* The decision gate on its own (SpecVelocity) *)

DecisionGates ==
    {DecisionGate_new} \cup {DecisionGate_for_tier(tier) : tier \in FrictionTier}

InitVelocity ==
    /\ now = 0
    /\ timer = FrictionTimer_new
    /\ verifier = ChallengeVerifier_new
    /\ decision_gate \in {set_velocity_enforcement(dg, enabled) :
                             dg \in DecisionGates, enabled \in BOOLEAN}
    /\ armed = TRUE
    /\ result = [op |-> "new"]
    /\ failed_reviews = {}
    /\ velocity_rejected = FALSE
    /\ NoHistory
    /\ NoLedger
    /\ approved_reviews = {}
    /\ NoSentinel
    /\ pac = None

\* DecisionGate::record_decision
RecordDecision(request) ==
    /\ decision_gate.velocity_enforcement
          \/ Len(decision_gate.recent_decisions) < MaxRecent
    /\ \E out \in {record_decision(decision_gate, request, now)} :
         /\ decision_gate' = out.decision_gate
         /\ result' = [op |-> "record_decision", ret |-> out.ret]
         /\ velocity_rejected' = (velocity_rejected \/ out.ret.kind = "VelocityViolation")
    /\ UNCHANGED <<now, timer, verifier, armed, failed_reviews, pac, history, ledger_state, approved_reviews, sentinel_state>>

\* the clock advances by half a velocity window, or a second more
Elapse(d) ==
    /\ now + d <= MaxClock
    /\ now' = now + d
    /\ result' = [op |-> "tick"]
    /\ UNCHANGED <<timer, verifier, decision_gate, armed, failed_reviews,
                   velocity_rejected, pac, history, ledger_state, approved_reviews, sentinel_state>>

HalfWindow == DecisionGate_new.velocity_window \div 2

NextVelocity ==
    \/ \E request \in PlainRequests : RecordDecision(request)
    \/ \E d \in {HalfWindow, HalfWindow + 1} : Elapse(d)

SpecVelocity == InitVelocity /\ [][NextVelocity]_vars

----------------------------------------------------------------------------
(* Properties of the decision gate (SpecVelocity) *)

\* the recorded timestamps of s that lie within the last 60 seconds
WithinWindow(s) == SelectSeq(s, LAMBDA ts : now - ts <= 60)

Recorded == result.op = "record_decision"

\* C9: with enforcement enabled, record_decision rejects with VelocityViolation
\* and appends nothing whenever the decisions recorded inside the window number
\* at least the gate's maximum, and otherwise appends exactly one timestamp;
\* so the decisions recorded within the last 60 seconds never exceed the maximum.
C9_VelocityCeiling ==
    /\ [][(Recorded' /\ decision_gate.velocity_enforcement) =>
            LET before == WithinWindow(decision_gate.recent_decisions)
                after == decision_gate'.recent_decisions
            IN IF Len(before) >= decision_gate.max_velocity
               THEN result'.ret.kind = "VelocityViolation" /\ after = before
               ELSE result'.ret.kind = "Ok" /\ after = Append(before, now)]_vars
    /\ [](decision_gate.velocity_enforcement =>
            Len(WithinWindow(decision_gate.recent_decisions)) <= decision_gate.max_velocity)

\* a full gate has just refused one more decision and kept its window as it was
C9_Witness ==
    /\ Recorded /\ result.ret.kind = "VelocityViolation"
    /\ decision_gate.velocity_enforcement
    /\ Len(WithinWindow(decision_gate.recent_decisions)) = decision_gate.max_velocity

\* C10: after a gate has recorded its maximum inside the window and refused a
\* further decision, a record_decision issued once more than the 60-second
\* window has passed since those decisions is accepted again: the entries
\* older than the window are pruned, and a velocity rejection is never permanent.
C10_RejectionNotPermanent ==
    [][(Recorded' /\ \A i \in DOMAIN decision_gate.recent_decisions :
                        now - decision_gate.recent_decisions[i] > 60) =>
          /\ result'.ret.kind = "Ok"
          /\ decision_gate'.recent_decisions = <<now>>]_vars

\* a gate that had refused a decision has accepted one again, all it had
\* recorded before having left the window
C10_Witness ==
    /\ velocity_rejected /\ decision_gate.velocity_enforcement
    /\ Recorded /\ result.ret.kind = "Ok"
    /\ decision_gate.recent_decisions = <<now>>

----------------------------------------------------------------------------
(* The validator (SpecValidator) *)

pac_id == <<"PAC-", "TEST-", "001">>

\* the 23 blocks in schema order, the final-state block asserting what G8 wants
CompleteBlocks ==
    [i \in 1..23 |->
        Block(i - 1, BlockType_all[i],
              IF BlockType_all[i] = PositiveClosureAndFinalState
              THEN <<"execution_blocking", ": TRUE">>
              ELSE <<"Block ", ToString(i - 1), " content">>)]

\* block lists: the 23 blocks or the first 20 of them, an index out of place or not, the
\* final-state assertion there or not, and ahead of the canonical final-state
\* block no second one, one without the assertion or one with it
BlockInputs ==
    {[i \in 1..n |->
        IF i = 6 /\ misplaced THEN [CompleteBlocks[i] EXCEPT !.index = 7]
        ELSE IF i = 19 /\ doubled = "unmarked"
        THEN Block(PositiveClosureAndFinalState, PositiveClosureAndFinalState, <<"done">>)
        ELSE IF i = 19 /\ doubled = "marked"
        THEN Block(PositiveClosureAndFinalState, PositiveClosureAndFinalState,
                   <<"execution_blocking", ": TRUE">>)
        ELSE IF i = 20 /\ ~asserted THEN [CompleteBlocks[i] EXCEPT !.content = <<"done">>]
        ELSE CompleteBlocks[i]] :
     n \in {PAC_BLOCK_COUNT, 23}, misplaced \in BOOLEAN, asserted \in BOOLEAN,
     doubled \in {"no", "unmarked", "marked"}}

MetadataInputs ==
    {PacMetadata(pac_id, tier, gid, drift, schema) :
        tier \in GovernanceTier,
        gid \in {<<"GID-", "00">>, <<"AGENT-", "00">>},
        drift \in {<<"ZERO">>, <<"LOW">>},
        schema \in {<<"CHAINBRIDGE_PAC_SCHEMA_v", "2", ".", "1.4">>,
                    <<"CHAINBRIDGE_PAC_SCHEMA_v", "1", ".", "0.0">>,
                    <<"CHAINBRIDGE_PAC_SCHEMA_v", "3", ".", "0.0">>}}

\* no declared hash, the right one, the right digest in upper case, a wrong one
HashInputs(metadata, blocks) ==
    LET right == compute_content_hash(Pac(metadata, blocks, None)) IN
    {None, Some(right), Some([right EXCEPT !.upper_case = TRUE]),
     Some(Sha256_hex(<<"other">>))}

InitValidator ==
    /\ now = 0
    /\ timer = FrictionTimer_new
    /\ verifier = ChallengeVerifier_new
    /\ decision_gate = DecisionGate_new
    /\ armed = TRUE
    /\ result = [op |-> "new"]
    /\ failed_reviews = {}
    /\ velocity_rejected = FALSE
    /\ NoHistory
    /\ NoLedger
    /\ approved_reviews = {}
    /\ NoSentinel
    /\ \E metadata \in MetadataInputs, blocks \in BlockInputs :
          \E content_hash \in HashInputs(metadata, blocks) :
              pac = Pac(metadata, blocks, content_hash)

\* ConstitutionalValidator::validate_preflight_with_friction
ValidatePreflightWithFriction(admission_ts) ==
    /\ result' = [op |-> "validate_preflight_with_friction",
                  admission_ts |-> admission_ts,
                  ret |-> validate_preflight_with_friction(validator, pac, admission_ts, now)]
    /\ UNCHANGED <<now, timer, verifier, decision_gate, armed, failed_reviews,
                   velocity_rejected, pac, history, ledger_state, approved_reviews, sentinel_state>>

\* the seconds that pass between the clock reading that stamps the admission and
\* the clock reading of G9 in the same call: none, or the shortest dwell minimum
CallSeconds == {0, dwell_times_operational}

\* ConstitutionalValidator::validate_preflight, a call that takes `took` seconds
ValidatePreflight(took) ==
    /\ now + took <= MaxTime
    /\ now' = now + took
    /\ result' = [op |-> "validate_preflight", admission_ts |-> now, took |-> took,
                  ret |-> validate_preflight(validator, pac, now, now + took)]
    /\ UNCHANGED <<timer, verifier, decision_gate, armed, failed_reviews,
                   velocity_rejected, pac, history, ledger_state, approved_reviews, sentinel_state>>

\* lib.rs validate, a call that takes `took` seconds
Validate(took) ==
    /\ now + took <= MaxTime
    /\ now' = now + took
    /\ result' = [op |-> "validate", admission_ts |-> now, took |-> took,
                  ret |-> validate(pac, executor_gid, now, now + took)]
    /\ UNCHANGED <<timer, verifier, decision_gate, armed, failed_reviews,
                   velocity_rejected, pac, history, ledger_state, approved_reviews, sentinel_state>>

NextValidator ==
    \/ \E admission_ts \in AdmissionInputs : ValidatePreflightWithFriction(admission_ts)
    \/ \E took \in CallSeconds : ValidatePreflight(took)
    \/ \E took \in CallSeconds : Validate(took)
    \/ Tick

SpecValidator == InitValidator /\ [][NextValidator]_vars

----------------------------------------------------------------------------
(* Properties of the validator (SpecValidator) *)

Validated == result.op \in {"validate_preflight_with_friction", "validate_preflight"}

\* the gates G1 .. G9 in the order of the pipeline
NineGates ==
    <<"G1StructuralLint", "G2GovernanceTierValidation", "G3ConstitutionalContinuityCheck",
      "G4BlockIndexIntegrity", "G5ContentHashVerification", "G6IssuerAuthorizationCheck",
      "G7DriftToleranceEnforcement", "G8FinalStateAssertion", "G9CognitiveFriction">>

\* the gates among the first eight that the returned decision object reports failed
FailedStructural == {i \in 1..8 : ~result.ret.value.gate_results[i].passed}

\* C1: for every artifact and every admission timestamp that is not in the
\* future, validate_preflight_with_friction returns a decision object holding
\* exactly nine gate results, one per gate in the order G1 .. G9, whichever
\* of the checks G1-G8 fail.
C1_NineGateResults ==
    (Validated /\ result.admission_ts <= now) =>
        /\ result.ret.ok
        /\ Len(result.ret.value.gate_results) = 9
        /\ \A i \in 1..9 : result.ret.value.gate_results[i].gate = NineGates[i]

\* a decision object for an artifact that failed every check able to fail
\* (G2 accepts every tier there is)
C1_Witness ==
    /\ Validated /\ result.ret.ok
    /\ FailedStructural = {1, 3, 4, 5, 6, 7, 8}
    /\ Len(result.ret.value.gate_results) = 9

\* C2: in every decision object returned the outcome is Approved if and only
\* if all nine gate results passed, and Rejected otherwise; RequiresReview and
\* Error are never produced.
C2_OutcomeIsConjunction ==
    (Validated /\ result.ret.ok) =>
        LET pdo == result.ret.value IN
        /\ pdo.outcome = "Approved" <=> \A i \in 1..9 : pdo.gate_results[i].passed
        /\ pdo.outcome \in {"Approved", "Rejected"}

\* an artifact sound in every structural check is rejected on G9 alone
C2_Witness ==
    /\ Validated /\ result.ret.ok
    /\ FailedStructural = {}
    /\ ~result.ret.value.gate_results[9].passed
    /\ result.ret.value.outcome = "Rejected"

\* C3: if the admission timestamp is later than the current time, the call
\* returns a SystemTimeError and no decision object, for every artifact and
\* tier; no G9 result is ever computed from a negative or clamped duration.
C3_ClockSkewFailsClosed ==
    Validated =>
        /\ result.admission_ts > now =>
              ~result.ret.ok /\ result.ret.error.kind = "SystemTimeError"
        /\ result.ret.ok => result.admission_ts <= now

\* an artifact sound in every structural check, admitted in the future
C3_Witness ==
    /\ Validated /\ result.admission_ts > now /\ ~result.ret.ok
    /\ validate_preflight_with_friction(validator, pac, now, now).ok
    /\ \A i \in 1..8 : validate_preflight_with_friction(validator, pac, now, now).value.gate_results[i].passed

----------------------------------------------------------------------------
(* The velocity ceiling behind submit_decision (SpecCeiling) *)

CeilingIds == {"d1", "d2", "d3", "d4"}

CeilingTiers == {"Guidance", "Operational"}

CeilingRequests ==
    {DecisionRequest(id, tier, FALSE, None) : id \in CeilingIds, tier \in CeilingTiers}

\* a gate of CognitiveGate::new or of CognitiveGate::for_tier
InitCeiling ==
    /\ now = 0
    /\ \E g \in {CognitiveGate_new} \cup {CognitiveGate_for_tier(tier) : tier \in FrictionTier} :
          /\ timer = g.timer
          /\ verifier = g.verifier
          /\ decision_gate = g.decision_gate
          /\ armed = g.armed
    /\ result = [op |-> "new"]
    /\ failed_reviews = {}
    /\ velocity_rejected = FALSE
    /\ NoHistory
    /\ NoLedger
    /\ approved_reviews = {}
    /\ NoSentinel
    /\ pac = None

NextCeiling ==
    \/ \E id \in CeilingIds, tier \in CeilingTiers :
          Reviews(id) < MaxDecisions /\ StartReview(id, tier)
    \/ \E request \in CeilingRequests : SubmitDecision(request)
    \/ Wait

SpecCeiling == InitCeiling /\ [][NextCeiling]_vars

\* the velocity ceilings as the specification gives them, decisions per minute
SpecifiedCeiling == [Law |-> 3, Policy |-> 6, Guidance |-> 10, Operational |-> 20]

\* C11: the velocity ceiling applied to a decision submitted through
\* submit_decision is the per-minute maximum of that decision's own tier: a
\* decision is rejected with VelocityViolation only when as many decisions as
\* its tier allows (Law 3, Policy 6, Guidance 10, Operational 20) are already
\* recorded inside the window.
C11_CeilingOfDecisionTier ==
    (Submitted /\ result.ret.kind = "VelocityViolation") =>
        Len(WithinWindow(decision_gate.recent_decisions)) >= SpecifiedCeiling[result.tier]

----------------------------------------------------------------------------
(* The challenge verifier on its own (SpecChallenge) *)

MaxChallenges == 1

MaxChallengeClock == 121

\* the shortest time limit of a challenge, the coarse step of this clock
ShortestLimit == time_limit_for_tier("Operational")

\* the answers expected by the challenges issued so far, one expected answer in
\* another case and padded, and an answer no challenge expects
ChallengeAnswers ==
    {generate_challenge_content(evaluated[id].tier, ChallengeType_for_tier(evaluated[id].tier)) :
        id \in DOMAIN evaluated}
    \cup {Answer("CONFIRM", TRUE, TRUE), Answer("WRONG ANSWER", FALSE, FALSE)}

\* a response names a challenge that was issued, or the next one, not issued yet
ChallengeResponses ==
    {ChallengeResponse(c, a, 1) :
        c \in 1..(verifier.challenge_counter + 1), a \in ChallengeAnswers}

InitChallenge ==
    /\ now = 0
    /\ timer = CognitiveGate_new.timer
    /\ verifier = ChallengeVerifier_new
    /\ decision_gate = CognitiveGate_new.decision_gate
    /\ armed = CognitiveGate_new.armed
    /\ result = [op |-> "new"]
    /\ failed_reviews = {}
    /\ velocity_rejected = FALSE
    /\ NoHistory
    /\ NoLedger
    /\ approved_reviews = {}
    /\ NoSentinel
    /\ pac = None

\* ChallengeVerifier::generate
Generate(tier) ==
    /\ \E g \in {generate(verifier, tier, now)} :
         /\ verifier' = g.verifier
         /\ result' = [op |-> "generate", challenge_id |-> g.challenge.id]
         /\ evaluated' = MapInsert(evaluated, g.challenge.id, [tier |-> tier, answers |-> 0])
    /\ UNCHANGED <<now, timer, decision_gate, armed, failed_reviews, velocity_rejected,
                   pac, resolved, review_log, ledger_state, approved_reviews, sentinel_state>>

\* the call gets as far as check_answer (challenge.rs:293)
ReachesCheckAnswer(vf, response, t) ==
    /\ response.challenge_id \in DOMAIN vf.active_challenges
    /\ ~is_expired(vf.active_challenges[response.challenge_id], t)
    /\ (IF response.challenge_id \in DOMAIN vf.attempt_counts
        THEN vf.attempt_counts[response.challenge_id] ELSE 0) + 1
          <= vf.active_challenges[response.challenge_id].max_attempts

\* ChallengeVerifier::verify
Verify(response) ==
    /\ \E out \in {verify(verifier, response, now)} :
         /\ verifier' = out.verifier
         /\ result' = [op |-> "verify", response |-> response, ret |-> out.ret]
         /\ resolved' = IF \/ out.ret.kind = "ChallengeFailure"
                           \/ (out.ret.kind = "Ok" /\ out.ret.value)
                        THEN resolved \cup {response.challenge_id}
                        ELSE resolved
    /\ evaluated' = IF ReachesCheckAnswer(verifier, response, now)
                    THEN [evaluated EXCEPT ![response.challenge_id].answers = @ + 1]
                    ELSE evaluated
    /\ UNCHANGED <<now, timer, decision_gate, armed, failed_reviews, velocity_rejected, pac,
                   review_log, ledger_state, approved_reviews, sentinel_state>>

\* ChallengeVerifier::clear_expired
ClearExpired ==
    /\ verifier' = clear_expired(verifier, now)
    /\ result' = [op |-> "clear_expired"]
    /\ UNCHANGED <<now, timer, decision_gate, armed, failed_reviews, velocity_rejected,
                   pac, history, ledger_state, approved_reviews, sentinel_state>>

\* the clock advances by d seconds; single seconds are taken on a multiple of the
\* shortest limit, so every limit is met exactly and passed by one second
Delay(d) ==
    /\ now + d <= MaxChallengeClock
    /\ d = 1 => now % ShortestLimit = 0
    /\ now' = now + d
    /\ result' = [op |-> "tick"]
    /\ UNCHANGED <<timer, verifier, decision_gate, armed, failed_reviews, velocity_rejected,
                   pac, history, ledger_state, approved_reviews, sentinel_state>>

NextChallenge ==
    \/ \E tier \in FrictionTier :
          verifier.challenge_counter < MaxChallenges /\ Generate(tier)
    \/ \E response \in ChallengeResponses : Verify(response)
    \/ ClearExpired
    \/ \E d \in {1, ShortestLimit} : Delay(d)

SpecChallenge == InitChallenge /\ [][NextChallenge]_vars

\* C12: once verify has answered a challenge id with Ok(true) or with a
\* ChallengeFailure (expiry or final failed attempt), the challenge is never active
\* again and every later verify call for that id returns the internal
\* "Challenge not found" error and changes nothing in the verifier, whatever the
\* answer.
C12_ResolvedChallengeNotFound ==
    [][/\ \A id \in resolved' : ~is_active(verifier', id)
       /\ (result'.op = "verify" /\ result'.response.challenge_id \in resolved) =>
             /\ result'.ret = [kind |-> "InternalError",
                               challenge_id |-> result'.response.challenge_id]
             /\ verifier' = verifier]_vars

\* a verify call for a challenge resolved before, carrying the expected answer of
\* its tier, was answered "not found"
C12_Witness ==
    /\ result.op = "verify"
    /\ result.ret.kind = "InternalError"
    /\ result.response.challenge_id \in resolved
    /\ hash_answer(result.response.answer)
         = hash_answer(generate_challenge_content(
                           evaluated[result.response.challenge_id].tier,
                           ChallengeType_for_tier(evaluated[result.response.challenge_id].tier)))

SpecifiedAttempts == [Law |-> 2, Policy |-> 3, Guidance |-> 3, Operational |-> 5]

SpecifiedLimit == [Law |-> 120, Policy |-> 90, Guidance |-> 60, Operational |-> 30]

\* C13: for a challenge whose tier allows N attempts (Law 2, Policy 3, Guidance 3,
\* Operational 5), each of the first N-1 incorrect responses (given within the
\* time limit) returns Ok(false), leaves the challenge active and reduces its
\* remaining attempts by one; the N-th incorrect response returns
\* ChallengeFailure and removes the challenge; no challenge ever has more than N
\* answers evaluated.
C13_AttemptsPerTier ==
    [][/\ \A id \in DOMAIN evaluated' :
             evaluated'[id].answers <= SpecifiedAttempts[evaluated'[id].tier]
       /\ \A id \in DOMAIN verifier.active_challenges :
             LET challenge == verifier.active_challenges[id]
                 N == SpecifiedAttempts[challenge.tier]
                 k == evaluated[id].answers + 1
             IN (/\ result'.op = "verify"
                 /\ result'.response.challenge_id = id
                 /\ now - challenge.issued_at <= SpecifiedLimit[challenge.tier]
                 /\ ~check_answer(challenge, result'.response.answer))
                => IF k < N
                   THEN /\ result'.ret = [kind |-> "Ok", value |-> FALSE]
                        /\ is_active(verifier', id)
                        /\ verifier'.active_challenges[id] = challenge
                        /\ remaining_attempts(verifier', id)
                             = Some(remaining_attempts(verifier, id).value - 1)
                        /\ remaining_attempts(verifier', id) = Some(N - k)
                   ELSE /\ k = N
                        /\ result'.ret = [kind |-> "ChallengeFailure", challenge_id |-> id,
                                          attempts |-> N, max_attempts |-> N]
                        /\ ~is_active(verifier', id)]_vars

\* an Operational challenge was removed on its fifth incorrect answer
C13_Witness ==
    /\ result.op = "verify"
    /\ result.ret.kind = "ChallengeFailure"
    /\ result.response.challenge_id \in DOMAIN evaluated
    /\ evaluated[result.response.challenge_id] = [tier |-> "Operational", answers |-> 5]
    /\ result.ret.attempts = 5
    /\ ~is_active(verifier, result.response.challenge_id)

\* C14: a response verified after the time limit of the challenge's tier has
\* passed (Law 120 s, Policy 90 s, Guidance 60 s, Operational 30 s) returns
\* ChallengeFailure and removes the challenge even when its answer is correct, and
\* is not counted as an attempt; a correct response verified within the limit
\* (the limit itself included) returns Ok(true).
C14_TimeLimitPerTier ==
    [][\A id \in DOMAIN verifier.active_challenges :
          LET challenge == verifier.active_challenges[id]
              elapsed == now - challenge.issued_at
              limit == SpecifiedLimit[challenge.tier]
          IN (result'.op = "verify" /\ result'.response.challenge_id = id) =>
               /\ elapsed > limit =>
                     /\ result'.ret.kind = "ChallengeFailure"
                     /\ ~is_active(verifier', id)
                     /\ verifier'.attempt_counts = verifier.attempt_counts
                     /\ evaluated' = evaluated
               /\ (elapsed <= limit /\ check_answer(challenge, result'.response.answer)) =>
                     result'.ret = [kind |-> "Ok", value |-> TRUE]]_vars

\* the expected answer to a Law challenge, given 121 s after it was issued and
\* before any other answer, was refused with ChallengeFailure
C14_Witness ==
    /\ result.op = "verify"
    /\ result.ret.kind = "ChallengeFailure"
    /\ result.response.challenge_id \in DOMAIN evaluated
    /\ evaluated[result.response.challenge_id] = [tier |-> "Law", answers |-> 0]
    /\ result.response.answer = Answer("I ACKNOWLEDGE THE CONSEQUENCES", FALSE, FALSE)
    /\ now = 121
    /\ ~is_active(verifier, result.response.challenge_id)

----------------------------------------------------------------------------
(* Properties of the cognitive gate: early returns of submit_decision (Spec) *)

C16_DwellCheckedBeforeChallenge ==
    [][(/\ result'.op = "submit_decision"
        /\ armed
        /\ result'.decision_id \in DOMAIN timer.active_timers
        /\ ~timer.active_timers[result'.decision_id].paused
        /\ now - timer.active_timers[result'.decision_id].started_at
              < SpecifiedMinimum[result'.tier]) =>
          /\ result'.ret =
                [kind |-> "DwellTimeViolation",
                 required |-> SpecifiedMinimum[result'.tier],
                 actual |-> now - timer.active_timers[result'.decision_id].started_at,
                 tier |-> result'.tier]
          /\ verifier' = verifier
          /\ decision_gate' = decision_gate
          /\ timer' = timer]_vars

\* a Law request answering an active challenge that has all its attempts left was
\* refused with DwellTimeViolation
C16_Witness ==
    /\ Submitted
    /\ result.ret.kind = "DwellTimeViolation"
    /\ result.tier = "Law"
    /\ result.response_to.some
    /\ is_active(verifier, result.response_to.value)
    /\ remaining_attempts(verifier, result.response_to.value)
         = Some(verifier.active_challenges[result.response_to.value].max_attempts)
    /\ result.decision_id \in DOMAIN timer.active_timers

----------------------------------------------------------------------------
(* The friction timer on its own, at its capacity (SpecTimer) *)

\* timers running when the model starts, as many as max_concurrent allows
Filled == FrictionTimer_new.max_concurrent

\* decisions whose review is not started yet when the model starts
MaxFresh == 1

MaxTimerTicks == 2

MaxCleared == 1

\* the timer after start(i, Operational) was called on a new timer for i = 1..n,
\* the i-th call in second i - 1 (n is at most max_concurrent, so nothing is evicted)
StartedInTurn(n) ==
    [FrictionTimer_new EXCEPT
        !.active_timers = [i \in 1..n |-> ActiveTimer_started("Operational", i - 1)]]

\* the decisions the calls are made for: the longest running one and the ones
\* not started yet
TimerIds == {1} \cup (Filled + 1)..(Filled + MaxFresh)

TimerTiers == {"Operational"}

InitTimer ==
    /\ now = Filled
    /\ timer = StartedInTurn(Filled)
    /\ verifier = CognitiveGate_new.verifier
    /\ decision_gate = CognitiveGate_new.decision_gate
    /\ armed = CognitiveGate_new.armed
    /\ result = [op |-> "new"]
    /\ failed_reviews = {}
    /\ velocity_rejected = FALSE
    /\ pac = None
    /\ resolved = {}
    /\ evaluated = EmptyMap
    /\ review_log = [id \in 1..Filled |->
                        [started |-> id - 1, paused_total |-> 0,
                         paused_since |-> None, resumed |-> FALSE]]
    /\ NoLedger
    /\ approved_reviews = {}
    /\ NoSentinel

TimerFrame ==
    UNCHANGED <<verifier, decision_gate, armed, failed_reviews, velocity_rejected, pac,
                resolved, evaluated, ledger_state, approved_reviews, sentinel_state>>

\* FrictionTimer::start
TimerStart(decision_id, tier) ==
    /\ timer' \in FrictionTimer_start(timer, decision_id, tier, now)
    /\ result' = [op |-> "start", decision_id |-> decision_id, tier |-> tier]
    /\ review_log' =
          [id \in DOMAIN timer'.active_timers |->
              IF id = decision_id
              THEN [started |-> now, paused_total |-> 0, paused_since |-> None, resumed |-> FALSE]
              ELSE review_log[id]]
    /\ UNCHANGED now
    /\ TimerFrame

\* FrictionTimer::check
TimerCheck(decision_id) ==
    /\ result' = [op |-> "check", decision_id |-> decision_id,
                  ret |-> FrictionTimer_check(timer, decision_id, now)]
    /\ UNCHANGED <<now, timer, review_log>>
    /\ TimerFrame

\* FrictionTimer::pause
TimerPause(decision_id) ==
    /\ timer' = FrictionTimer_pause(timer, decision_id)
    /\ result' = [op |-> "pause", decision_id |-> decision_id]
    /\ review_log' =
          IF decision_id \in DOMAIN review_log /\ ~review_log[decision_id].paused_since.some
          THEN [review_log EXCEPT ![decision_id].paused_since = Some(now)]
          ELSE review_log
    /\ UNCHANGED now
    /\ TimerFrame

\* FrictionTimer::resume
TimerResume(decision_id) ==
    /\ timer' = FrictionTimer_resume(timer, decision_id, now)
    /\ result' = [op |-> "resume", decision_id |-> decision_id]
    /\ review_log' =
          IF decision_id \in DOMAIN review_log /\ review_log[decision_id].paused_since.some
          THEN [review_log EXCEPT
                   ![decision_id].paused_total =
                       @ + (now - review_log[decision_id].paused_since.value),
                   ![decision_id].paused_since = None,
                   ![decision_id].resumed = TRUE]
          ELSE review_log
    /\ UNCHANGED now
    /\ TimerFrame

\* FrictionTimer::clear
TimerClear(decision_id) ==
    /\ timer' = FrictionTimer_clear(timer, decision_id, now)
    /\ result' = [op |-> "clear", decision_id |-> decision_id]
    /\ review_log' = MapRemove(review_log, {decision_id})
    /\ UNCHANGED now
    /\ TimerFrame

\* the clock advances by one second
TimerTick ==
    /\ now < Filled + MaxTimerTicks
    /\ now' = now + 1
    /\ result' = [op |-> "tick"]
    /\ UNCHANGED <<timer, review_log>>
    /\ TimerFrame

\* reviews are started for decisions that have no timer running, and started
\* again for decisions that have one
NextTimer ==
    \/ \E id \in TimerIds, tier \in TimerTiers : TimerStart(id, tier)
    \/ \E id \in TimerIds : TimerCheck(id)
    \/ \E id \in TimerIds : TimerPause(id)
    \/ \E id \in TimerIds : TimerResume(id)
    \/ \E id \in TimerIds : Len(timer.completed_timers) < MaxCleared /\ TimerClear(id)
    \/ TimerTick

SpecTimer == InitTimer /\ [][NextTimer]_vars

\* C17: after any sequence of start, pause, resume and clear calls at most 100
\* timers are active, and when start is called while 100 timers are active the
\* entry it evicts is the one whose review was started earliest.
C17_CapacityEvictsEarliestReview ==
    [][/\ Cardinality(DOMAIN timer'.active_timers) <= 100
       /\ (result'.op = "start" /\ Cardinality(DOMAIN timer.active_timers) = 100) =>
             \A gone \in (DOMAIN timer.active_timers) \ (DOMAIN timer'.active_timers) :
                 \A other \in DOMAIN timer.active_timers :
                     review_log[gone].started <= review_log[other].started]_vars

\* C18: after a timer has been paused and later resumed, the elapsed time check
\* reports is the time since start minus the total time spent paused, so review
\* time from before the pause still counts.
C18_PausedTimeExcluded ==
    (/\ result.op = "check"
     /\ result.ret.ok
     /\ review_log[result.decision_id].resumed
     /\ ~review_log[result.decision_id].paused_since.some) =>
        result.ret.state.elapsed =
            (now - review_log[result.decision_id].started)
            - review_log[result.decision_id].paused_total

----------------------------------------------------------------------------
(* Properties of the validator: well-formed artifacts and the decision hash *)

\* what the specification asks of a well-formed artifact, but for its final-state
\* block: 23 blocks each at its canonical index, a supported schema version, an
\* issuer id beginning with "GID-", a drift tolerance valid for its tier
WellFormed(p) ==
    /\ Len(p.blocks) = 23
    /\ \A i \in 1..Len(p.blocks) : p.blocks[i].index = p.blocks[i].block_type
    /\ \/ starts_with(p.metadata.schema_version, <<"CHAINBRIDGE_PAC_SCHEMA_v", "1", ".">>)
       \/ starts_with(p.metadata.schema_version, <<"CHAINBRIDGE_PAC_SCHEMA_v", "2", ".">>)
    /\ starts_with(p.metadata.issuer_gid, <<"GID-">>)
    /\ p.metadata.governance_tier = "Law" => p.metadata.drift_tolerance = <<"ZERO">>

\* the positions of the final-state blocks that hold the execution_blocking marker
MarkedFinals(p) ==
    {i \in 1..Len(p.blocks) :
        /\ p.blocks[i].block_type = PositiveClosureAndFinalState
        /\ contains(p.blocks[i].content, <<"execution_blocking">>)}

\* the positions of the final-state blocks
Finals(p) == {i \in 1..Len(p.blocks) : p.blocks[i].block_type = PositiveClosureAndFinalState}

\* the artifact was admitted at least the minimum dwell of its tier ago
AdmittedLongEnough ==
    /\ result.admission_ts <= now
    /\ now - result.admission_ts >= SpecifiedMinimum[pac.metadata.governance_tier]

\* Approved, with all nine gate results passing
ApprovedByAllNine ==
    /\ result.ret.ok
    /\ result.ret.value.outcome = "Approved"
    /\ Len(result.ret.value.gate_results) = 9
    /\ \A i \in 1..9 : result.ret.value.gate_results[i].passed

\* C19 as stated: for any artifact with 23 blocks each at its canonical index, a
\* supported schema version, an issuer id beginning with "GID-", a drift
\* tolerance valid for its tier and a final-state block containing the
\* execution_blocking marker, admitted at least the tier's minimum dwell in the
\* past, validation returns Approved with all nine gate results passing.
C19_AsStated ==
    (/\ Validated
     /\ WellFormed(pac)
     /\ MarkedFinals(pac) # {}
     /\ AdmittedLongEnough) => ApprovedByAllNine

\* C19: for any artifact with 23 blocks each at its canonical index, a supported
\* schema version, an issuer id beginning with "GID-", a drift tolerance valid for
\* its tier, exactly one final-state block, which contains the execution_blocking
\* marker, and either no declared content hash or a declared hash equal to the
\* digest computed over the artifact, admitted at least the tier's minimum dwell
\* in the past, validation returns Approved with all nine gate results passing.
C19_WellFormedApproved ==
    (/\ Validated
     /\ WellFormed(pac)
     /\ Finals(pac) = MarkedFinals(pac)
     /\ Cardinality(Finals(pac)) = 1
     /\ \/ ~pac.content_hash.some
        \/ pac.content_hash.value = compute_content_hash(pac)
     /\ AdmittedLongEnough) => ApprovedByAllNine

\* a well-formed Law artifact declaring its own digest was approved five seconds
\* after its admission
C19_Witness ==
    /\ Validated
    /\ WellFormed(pac)
    /\ Cardinality(Finals(pac)) = 1
    /\ pac.metadata.governance_tier = "Law"
    /\ pac.content_hash.some
    /\ now - result.admission_ts = 5
    /\ ApprovedByAllNine

\* what the specification says the decision hash is a digest of: the artifact
\* id and the ordered pass/fail flags and messages of the gate results
HashedValues(pdo) ==
    <<pdo.pac_id,
      [i \in 1..Len(pdo.gate_results) |->
          <<pdo.gate_results[i].passed, pdo.gate_results[i].message>>]>>

\* validators that differ in their executor id (the second is the Default one)
ValidatorInputs == {validator, ConstitutionalValidator_new(<<>>)}

\* the artifact, and the artifact with a block rewritten
ArtifactVariants ==
    {pac, [pac EXCEPT !.blocks[1].content = <<"Block ", "0", " rewritten">>]}

\* other validation runs: on either validator, of the artifact or its variant, at
\* this second or the next, with the same admission or one a second later
OtherRuns ==
    {validate_preflight_with_friction(v, p, admission_ts, t) :
        v \in ValidatorInputs, p \in ArtifactVariants,
        admission_ts \in {result.admission_ts, result.admission_ts + 1},
        t \in {now, now + 1}}

\* C20: the decision hash is a function only of the artifact id and the ordered
\* pass/fail flags and messages of the gate results: a validation run that
\* agrees with another on those values has the same decision hash, whatever the
\* executor id, the gate-result timestamps and the decision timestamp of the two.
C20_DecisionHashOfFlagsAndMessages ==
    (Validated /\ result.ret.ok) =>
        \A other \in OtherRuns :
            (other.ok /\ HashedValues(other.value) = HashedValues(result.ret.value)) =>
                other.value.decision_hash = result.ret.value.decision_hash

\* a run has a counterpart that agrees on flags and messages and has its decision
\* hash, made by another executor on a rewritten artifact and a second later,
\* so that every timestamp differs
C20_Witness ==
    /\ Validated /\ result.ret.ok
    /\ \E other \in OtherRuns :
          /\ other.ok
          /\ HashedValues(other.value) = HashedValues(result.ret.value)
          /\ other.value.decision_hash = result.ret.value.decision_hash
          /\ other.value.executor_gid # result.ret.value.executor_gid
          /\ other.value.decision_timestamp # result.ret.value.decision_timestamp
          /\ \A i \in 1..9 :
                other.value.gate_results[i].timestamp
                    # result.ret.value.gate_results[i].timestamp
          /\ other.value # result.ret.value

\* C21: G8 passes if and only if the artifact contains exactly one
\* PositiveClosureAndFinalState block and the content of that block contains the
\* marker execution_blocking; an artifact with no such block, or with more than
\* one, fails G8.
C21_ExactlyOneFinalState ==
    (Validated /\ result.ret.ok) =>
        (result.ret.value.gate_results[8].passed
            <=> (Cardinality(Finals(pac)) = 1 /\ Finals(pac) = MarkedFinals(pac)))

\* the canonical catalog size of a schema version: 20 block types up to v1.x,
\* 23 since v2.1.4
CatalogSize(schema_version) ==
    IF starts_with(schema_version, <<"CHAINBRIDGE_PAC_SCHEMA_v", "1", ".">>) THEN 20 ELSE 23

\* C22: G1 passes if and only if the artifact's block count equals the canonical
\* catalog size of its declared schema version (20 for v1.x, 23 for v2.x), and
\* the block count G1 requires is the library's published PAC_BLOCK_COUNT.
C22_BlockCountOfSchema ==
    (/\ Validated /\ result.ret.ok
     /\ \/ starts_with(pac.metadata.schema_version, <<"CHAINBRIDGE_PAC_SCHEMA_v", "1", ".">>)
        \/ starts_with(pac.metadata.schema_version, <<"CHAINBRIDGE_PAC_SCHEMA_v", "2", ".">>)) =>
        /\ result.ret.value.gate_results[1].passed
              <=> Len(pac.blocks) = CatalogSize(pac.metadata.schema_version)
        /\ result.ret.value.gate_results[1].passed => Len(pac.blocks) = PAC_BLOCK_COUNT


----------------------------------------------------------------------------
(* AtomicLedgerWriter::append_entry called by several threads on one ledger *)

\* the entries handed to append_entry: a WRAP entry of the calling thread and one
\* without an entry id
EntryInputs(w, i) ==
    {create_wrap_entry(<<"WRAP-T", ToString(w), "-", ToString(i)>>), create_wrap_entry(<<>>)}

InitLedger ==
    /\ now = 0
    /\ timer = CognitiveGate_new.timer
    /\ verifier = CognitiveGate_new.verifier
    /\ decision_gate = CognitiveGate_new.decision_gate
    /\ armed = CognitiveGate_new.armed
    /\ result = [op |-> "new"]
    /\ failed_reviews = {}
    /\ velocity_rejected = FALSE
    /\ pac = None
    /\ NoHistory
    /\ NoLedger
    /\ approved_reviews = {}
    /\ NoSentinel

LedgerFrame ==
    UNCHANGED <<now, timer, verifier, decision_gate, armed, failed_reviews,
                velocity_rejected, pac, history, approved_reviews, sentinel_state>>

\* a return of append_entry that keeps the lock file locked
Return_keeping_lock(w, fs, ret) ==
    /\ files' = fs
    /\ writers' = [writers EXCEPT ![w] = Idle(writers[w].calls)]
    /\ result' = [op |-> "append_entry", writer |-> w, ret |-> ret]
    /\ returned' = IF ret.ok THEN Append(returned, ret.value) ELSE returned

\* a return of append_entry: the lock file is dropped, which releases the lock
Return(w, fs, ret) ==
    /\ files' = [fs EXCEPT !.lock = @ \ {w}]
    /\ writers' = [writers EXCEPT ![w] = Idle(writers[w].calls)]
    /\ result' = [op |-> "append_entry", writer |-> w, ret |-> ret]
    /\ returned' = IF ret.ok THEN Append(returned, ret.value) ELSE returned

\* a thread calls append_entry
AppendEntry(w, entry) ==
    /\ writers[w].pc = "idle"
    /\ writers[w].calls < MaxAppends
    /\ writers' = [writers EXCEPT ![w] =
                      [pc |-> "acquire_lock", calls |-> writers[w].calls + 1,
                       entry |-> entry]]
    /\ UNCHANGED <<files, returned, result>>
    /\ LedgerFrame

\* acquire_lock: one turn of the try_lock loop that is granted the lock
AcquireLock(w) ==
    /\ writers[w].pc = "acquire_lock"
    /\ try_lock_exclusive(files.lock)
    /\ files' = [files EXCEPT !.lock = @ \cup {w}]
    /\ writers' = [writers EXCEPT ![w].pc = "read_ledger"]
    /\ UNCHANGED <<returned, result>>
    /\ LedgerFrame

\* acquire_lock: the lock stayed taken for the whole lock_timeout
LockTimeout(w) ==
    /\ writers[w].pc = "acquire_lock"
    /\ ~try_lock_exclusive(files.lock)
    /\ Return(w, files, Err("LockTimeout"))
    /\ LedgerFrame

\* append_entry, steps 2 to 5: read the ledger, number and check the entry
ReadLedger(w, io) ==
    /\ writers[w].pc = "read_ledger"
    /\ \E read \in {read_ledger(files, io)} :
          IF ~read.ok THEN Return(w, files, read)
          ELSE \E out \in {append_to(read.value, writers[w].entry)} :
                  IF out.ok
                  THEN /\ writers' = [writers EXCEPT ![w] =
                                         [pc |-> "write_temp", calls |-> writers[w].calls,
                                          next_seq |-> out.value.next_seq,
                                          ledger |-> out.value.ledger]]
                       /\ UNCHANGED <<files, returned, result>>
                  ELSE Return(w, files, out)
    /\ LedgerFrame

\* write_ledger_atomic, steps 1 and 2: the temporary file is created, written and
\* synced, or one of the three fails
WriteTemp(w, io_ok) ==
    /\ writers[w].pc = "write_temp"
    /\ IF io_ok
       THEN /\ files' = [files EXCEPT !.temp = Some(writers[w].ledger)]
            /\ writers' = [writers EXCEPT ![w].pc = "rename"]
            /\ UNCHANGED <<returned, result>>
       ELSE Return(w, files, Err("WriteFailed"))
    /\ LedgerFrame

\* write_ledger_atomic, step 3: the temporary file replaces the ledger file
Rename(w, io_ok) ==
    /\ writers[w].pc = "rename"
    /\ IF io_ok /\ files.temp.some
       THEN /\ files' = [files EXCEPT !.ledger = files.temp, !.temp = None]
            /\ writers' = [writers EXCEPT ![w].pc = "release"]
            /\ UNCHANGED <<returned, result>>
       ELSE Return(w, files, Err("RenameFailed"))
    /\ LedgerFrame

\* append_entry, step 7: the lock is released and the sequence number returned
Release(w) ==
    /\ writers[w].pc = "release"
    /\ Return(w, files, Ok(writers[w].next_seq))
    /\ LedgerFrame

NextLedger ==
    \/ \E w \in Writers : \E entry \in EntryInputs(w, writers[w].calls) : AppendEntry(w, entry)
    \/ \E w \in Writers : AcquireLock(w)
    \/ \E w \in Writers : LockTimeout(w)
    \/ \E w \in Writers, io \in {"ok", "ReadFailed", "ParseFailed"} : ReadLedger(w, io)
    \/ \E w \in Writers, io_ok \in BOOLEAN : WriteTemp(w, io_ok)
    \/ \E w \in Writers, io_ok \in BOOLEAN : Rename(w, io_ok)
    \/ \E w \in Writers : Release(w)

SpecLedger == InitLedger /\ [][NextLedger]_vars

\* the entries of the ledger file, none when the file does not exist
LedgerEntries == read_ledger(files, "ok").value.entries

\* C23: when several writers call append_entry concurrently on the same ledger, the
\* sequence numbers returned by the successful calls are pairwise distinct and are
\* exactly 1..N for N successful calls, and once every call has returned the
\* ledger holds N entries whose sequence numbers are strictly increasing
C23_ConcurrentAppendsNumbered ==
    /\ \A i, j \in 1..Len(returned) : returned[i] = returned[j] => i = j
    /\ (\A w \in Writers : writers[w].pc = "idle") =>
          /\ {returned[i] : i \in 1..Len(returned)} = 1..Len(returned)
          /\ Len(LedgerEntries) = Len(returned)
          /\ \A i \in 1..(Len(LedgerEntries) - 1) :
                LedgerEntries[i].sequence < LedgerEntries[i + 1].sequence

\* every writer has made all its calls, at least three of them returned a
\* sequence number, and entries of two different writers are in the ledger
C23_Witness ==
    /\ \A w \in Writers : writers[w].pc = "idle" /\ writers[w].calls = MaxAppends
    /\ Len(returned) >= 3
    /\ \E i, j \in 1..Len(LedgerEntries) :
          LedgerEntries[i].entry_id[2] # LedgerEntries[j].entry_id[2]


----------------------------------------------------------------------------
(* Approval consumes the review (Spec) *)

\* the decisions of the velocity window at the clock, oldest first
RecentAt(dg, t) == SelectSeq(dg.recent_decisions, LAMBDA at : at >= t - dg.velocity_window)

\* C24: when submit_decision returns Approved on an armed gate it has removed the
\* timer of the decision and recorded exactly one velocity entry, and a later
\* submit_decision for the same id without a new start_review returns
\* TimerNotStarted, so no review is approved twice
C24_ApprovalConsumesReview ==
    [][(result'.op = "submit_decision" /\ armed) =>
          /\ result'.ret.kind = "Approved" =>
                /\ result'.decision_id \in DOMAIN timer.active_timers
                /\ result'.decision_id \notin DOMAIN timer'.active_timers
                /\ decision_gate'.recent_decisions
                      = Append(RecentAt(decision_gate, now), now)
          /\ result'.decision_id \in approved_reviews =>
                result'.ret = [kind |-> "TimerNotStarted"]]_vars

\* a decision approved earlier, and not started again, was submitted once more and
\* refused, the velocity window still holding the entry of its approval
C24_Witness ==
    /\ Submitted
    /\ armed
    /\ result.decision_id \in approved_reviews
    /\ result.ret.kind = "TimerNotStarted"
    /\ decision_gate.recent_decisions # <<>>


----------------------------------------------------------------------------
(* The wait the decision gate announces (SpecVelocity) *)

\* record_decision called at clock t on the gate as it stands would be accepted
AcceptedAt(t) ==
    \A request \in PlainRequests : record_decision(decision_gate, request, t).ret.kind = "Ok"

\* C25: time_until_allowed returns zero exactly when the gate is under its velocity
\* threshold, that is when the next record_decision would be accepted; otherwise
\* it returns the window length minus the age of the oldest recorded decision,
\* and a record_decision issued after waiting that long is accepted
C25_WaitUntilAllowed ==
    LET wait == time_until_allowed(decision_gate, now)
    IN /\ wait = 0 <=> AcceptedAt(now)
       /\ wait # 0 =>
             /\ decision_gate.recent_decisions # <<>>
             /\ wait = decision_gate.velocity_window - (now - Head(decision_gate.recent_decisions))
       /\ AcceptedAt(now + wait)


----------------------------------------------------------------------------
(* The gate of a test-mode build, disarmed and armed again (SpecTestMode) *)

\* challenges are issued at the tiers reviews are started at

NextTestMode ==
    \/ \E id \in DecisionIds, tier \in ReviewTiers :
          Sessions(id) < MaxSessions /\ StartReview(id, tier)
    \/ \E tier \in ReviewTiers :
          Sessions("") < MaxSessions /\ GenerateChallenge(tier)
    \/ \E request \in Requests : SubmitDecision(request)
    \/ Wait
    \/ armed /\ Disarm
    \/ ~armed /\ Arm

SpecTestMode == Init /\ [][NextTestMode]_vars

\* C26: when the gate is disarmed, submit_decision returns Approved with zero
\* review duration and challenge_passed = false for every request, without
\* requiring a timer and without changing timer, challenge or velocity state;
\* arm() changes nothing but the switch, and on the armed gate the checks apply:
\* a decision without a timer is refused with TimerNotStarted, one reviewed for
\* less than the minimum dwell of its tier with DwellTimeViolation, and one of a
\* tier that requires a challenge and carries no response with ChallengeRequired
C26_DisarmedBypassesArmedChecks ==
    /\ [][(result'.op = "submit_decision" /\ ~armed) =>
            /\ result'.ret = [kind |-> "Approved", decision_id |-> result'.decision_id,
                              review_duration |-> 0, challenge_passed |-> FALSE]
            /\ timer' = timer
            /\ verifier' = verifier
            /\ decision_gate' = decision_gate]_vars
    /\ [][result'.op = "arm" =>
            /\ armed'
            /\ timer' = timer
            /\ verifier' = verifier
            /\ decision_gate' = decision_gate]_vars
    /\ [][(result'.op = "submit_decision" /\ armed) =>
            LET id == result'.decision_id
                started == id \in DOMAIN timer.active_timers
                reviewed == now - timer.active_timers[id].started_at
            IN /\ ~started => result'.ret.kind = "TimerNotStarted"
               /\ (started /\ reviewed < SpecifiedMinimum[result'.tier]) =>
                     result'.ret.kind = "DwellTimeViolation"
               /\ (/\ started
                   /\ reviewed >= SpecifiedMinimum[result'.tier]
                   /\ result'.tier = "Law"
                   /\ ~result'.response_to.some) =>
                     result'.ret.kind = "ChallengeRequired"]_vars

\* a disarmed gate approved a Law decision that has no timer and answers no
\* challenge, while a challenge was waiting for its answer
C26_Witness ==
    /\ Submitted
    /\ ~armed
    /\ result.ret.kind = "Approved"
    /\ result.tier = "Law"
    /\ ~result.response_to.some
    /\ result.decision_id \notin DOMAIN timer.active_timers
    /\ DOMAIN verifier.active_challenges # {}


----------------------------------------------------------------------------
(* The completed history of the friction timer at its limit (SpecHistory) *)

\* the records the completed history may hold before clear trims it
HistoryLimit == 1000

\* the timer after n reviews were started and cleared at once in second 0: no
\* timer is active and the completed history holds their n records
ClearedInTurn(n) ==
    [FrictionTimer_new EXCEPT
        !.completed_timers =
            [i \in 1..n |-> [decision_id |-> HistoryLimit + i,
                             review_duration |-> 0,
                             tier |-> "Operational",
                             dwell_satisfied |-> FALSE,
                             completed_at |-> 0]]]

\* the history is MaxCleared records short of its limit
InitHistory ==
    /\ now = Filled
    /\ timer = ClearedInTurn(HistoryLimit - MaxCleared)
    /\ verifier = CognitiveGate_new.verifier
    /\ decision_gate = CognitiveGate_new.decision_gate
    /\ armed = CognitiveGate_new.armed
    /\ result = [op |-> "new"]
    /\ failed_reviews = {}
    /\ velocity_rejected = FALSE
    /\ pac = None
    /\ NoHistory
    /\ NoLedger
    /\ approved_reviews = {}
    /\ NoSentinel

\* the decisions reviewed while the history is at its limit
HistoryIds == {1, 2}

\* calls made within one second; clear is called until the history was trimmed
\* and has grown by MaxCleared again
NextHistory ==
    \/ \E id \in HistoryIds \ DOMAIN timer.active_timers, tier \in TimerTiers :
          TimerStart(id, tier)
    \/ \E id \in HistoryIds : TimerPause(id)
    \/ \E id \in HistoryIds : TimerResume(id)
    \/ \E id \in HistoryIds :
          /\ \/ Len(timer.completed_timers) >= HistoryLimit - MaxCleared
             \/ Len(timer.completed_timers) < (HistoryLimit \div 2) + 1 + MaxCleared
          /\ TimerClear(id)

SpecHistory == InitHistory /\ [][NextHistory]_vars

\* C27: clear(id) on an active timer removes the entry and appends exactly one
\* record to the completed history, clear(id) on an absent id changes nothing,
\* and after any sequence of operations the completed history never holds more
\* than 1000 records, the oldest records being the ones dropped
C27_ClearAppendsToBoundedHistory ==
    /\ [][result'.op = "clear" =>
            LET id == result'.decision_id
                old == timer.completed_timers
                new == timer'.completed_timers
                all == Append(old, new[Len(new)])
            IN IF id \in DOMAIN timer.active_timers
               THEN /\ timer'.active_timers = MapRemove(timer.active_timers, {id})
                    /\ new # <<>>
                    /\ new[Len(new)].decision_id = id
                    /\ new[Len(new)].completed_at = now
                    /\ new = SubSeq(all, Len(all) - Len(new) + 1, Len(all))
                    /\ Len(old) < 1000 => new = all
               ELSE timer' = timer]_vars
    /\ [](Len(timer.completed_timers) <= 1000)

\* clear has just trimmed a history of 1000 records: the record of the cleared
\* timer is the last of the 501 that are left, the first 500 are gone
C27_Witness ==
    /\ result.op = "clear"
    /\ Len(timer.completed_timers) = 501
    /\ timer.completed_timers[501].decision_id = result.decision_id
    /\ timer.completed_timers[1].decision_id = HistoryLimit + 501


----------------------------------------------------------------------------
(* Reviews whose timer is paused and resumed (SpecPaused) *)

\* the cognitive gate second by second, the timer it holds paused and resumed
\* between start_review and submit_decision
NextPaused ==
    \/ \E id \in DecisionIds, tier \in FrictionTier :
          /\ Reviews(id) < MaxReviews
          /\ TimerStart(id, tier)
    \/ \E id \in DecisionIds : TimerCheck(id)
    \/ \E id \in DecisionIds : TimerPause(id)
    \/ \E id \in DecisionIds : TimerResume(id)
    \/ \E request \in PlainRequests : SubmitDecision(request)
    \/ Tick

SpecPaused == Init /\ [][NextPaused]_vars

\* the seconds the running review of a decision has spent unpaused
Unpaused(id) ==
    (now - review_log[id].started) - review_log[id].paused_total
    - (IF review_log[id].paused_since.some THEN now - review_log[id].paused_since.value ELSE 0)

\* C28: while the timer of a decision is paused, check reports zero elapsed time
\* for it and submit_decision for it never returns Approved on an armed gate;
\* time spent paused never counts toward the dwell requirement: the elapsed
\* time check reports never exceeds the time the review has spent unpaused, and
\* an Approved review has spent at least the minimum dwell of the request's
\* tier unpaused
C28_PausedTimeNeverCounts ==
    /\ []((/\ result.op = "check"
           /\ result.ret.ok) =>
            /\ timer.active_timers[result.decision_id].paused =>
                  result.ret.state.elapsed = 0
            /\ result.ret.state.elapsed <= Unpaused(result.decision_id))
    /\ [][(/\ result'.op = "submit_decision"
           /\ armed
           /\ result'.decision_id \in DOMAIN timer.active_timers) =>
            /\ timer.active_timers[result'.decision_id].paused =>
                  result'.ret.kind = "DwellTimeViolation" /\ result'.ret.actual = 0
            /\ result'.ret.kind = "Approved" =>
                  /\ result'.ret.review_duration <= Unpaused(result'.decision_id)
                  /\ Unpaused(result'.decision_id) >= SpecifiedMinimum[result'.tier]]_vars

\* a review that ran for the whole dwell of its tier before it was paused was
\* refused with zero seconds reviewed
C28_Witness ==
    /\ Submitted
    /\ armed
    /\ result.ret.kind = "DwellTimeViolation"
    /\ result.ret.actual = 0
    /\ result.decision_id \in DOMAIN timer.active_timers
    /\ timer.active_timers[result.decision_id].paused
    /\ review_log[result.decision_id].paused_since.some
    /\ review_log[result.decision_id].paused_since.value - review_log[result.decision_id].started
          >= SpecifiedMinimum[result.tier]


----------------------------------------------------------------------------
(* Operations on distinct decisions below the capacity of the timer (SpecShared) *)

\* timers running when the model starts: two short of max_concurrent
Running == FrictionTimer_new.max_concurrent - 2

\* the decisions the calls are made for: the two that fill the timer
SharedIds == (Running + 1)..(Running + 2)

SharedRequests ==
    {DecisionRequest(id, tier, FALSE, None) : id \in SharedIds, tier \in TimerTiers}

InitShared ==
    /\ now = Running
    /\ timer = StartedInTurn(Running)
    /\ verifier = CognitiveGate_new.verifier
    /\ decision_gate = CognitiveGate_new.decision_gate
    /\ armed = CognitiveGate_new.armed
    /\ result = [op |-> "new"]
    /\ failed_reviews = {}
    /\ velocity_rejected = FALSE
    /\ pac = None
    /\ resolved = {}
    /\ evaluated = EmptyMap
    /\ review_log = [id \in 1..Running |->
                        [started |-> id - 1, paused_total |-> 0,
                         paused_since |-> None, resumed |-> FALSE]]
    /\ NoLedger
    /\ approved_reviews = {}
    /\ NoSentinel

\* the clock advances by one second
SharedTick ==
    /\ now < Running + MaxTicks
    /\ now' = now + 1
    /\ result' = [op |-> "tick"]
    /\ UNCHANGED <<timer, review_log>>
    /\ TimerFrame

NextShared ==
    \/ \E id \in SharedIds \ DOMAIN timer.active_timers, tier \in TimerTiers :
          TimerStart(id, tier)
    \/ \E id \in SharedIds : TimerPause(id)
    \/ \E id \in SharedIds : TimerResume(id)
    \/ \E id \in SharedIds : Len(timer.completed_timers) < MaxCleared /\ TimerClear(id)
    \/ \E request \in SharedRequests :
          Len(timer.completed_timers) < MaxCleared /\ SubmitDecision(request)
    \/ SharedTick

SpecShared == InitShared /\ [][NextShared]_vars

\* C29: while fewer than 100 timers are active, start, pause, resume, clear and
\* submit_decision applied to one decision id never change the presence, tier,
\* start time or paused state of the timer of a different decision id, under any
\* interleaving of operations on distinct ids
C29_OtherTimersUntouched ==
    [][(/\ result'.op \in {"start", "pause", "resume", "clear", "submit_decision"}
        /\ Cardinality(DOMAIN timer.active_timers) < 100) =>
          \A other \in (DOMAIN timer.active_timers \cup DOMAIN timer'.active_timers)
                          \ {result'.decision_id} :
              /\ other \in DOMAIN timer.active_timers
              /\ other \in DOMAIN timer'.active_timers
              /\ timer'.active_timers[other].tier = timer.active_timers[other].tier
              /\ timer'.active_timers[other].started_at = timer.active_timers[other].started_at
              /\ timer'.active_timers[other].paused = timer.active_timers[other].paused]_vars

\* the hundredth timer was started while another decision's timer was paused,
\* and that one is still there, paused
C29_Witness ==
    /\ result.op = "start"
    /\ Cardinality(DOMAIN timer.active_timers) = 100
    /\ \E other \in SharedIds \ {result.decision_id} :
          /\ other \in DOMAIN timer.active_timers
          /\ timer.active_timers[other].paused


----------------------------------------------------------------------------
(* The content hash gate (SpecValidator) *)

\* the contents of the first n blocks, one after the other
RECURSIVE ContentsInOrder(_, _)
ContentsInOrder(blocks, n) ==
    IF n = 0 THEN <<>> ELSE ContentsInOrder(blocks, n - 1) \o blocks[n].content

\* the digest of the artifact id followed by the block contents in order, in
\* lower-case hexadecimal
SpecifiedDigest(p) ==
    [digest |-> p.metadata.pac_id \o ContentsInOrder(p.blocks, Len(p.blocks)),
     upper_case |-> FALSE]

\* other contents for block i: none, another text, the content cut short or
\* extended, the content of the following block
OtherContents(p, i) ==
    {<<>>, <<"changed">>, Tail(p.blocks[i].content), p.blocks[i].content \o <<"!">>,
     p.blocks[IF i < Len(p.blocks) THEN i + 1 ELSE 1].content} \ {p.blocks[i].content}

\* C30: G5 passes when no content hash is declared; when one is declared it
\* passes if and only if the declared value equals the digest of the artifact id
\* followed by the block contents in order, so changing the content of any
\* single block of an artifact whose declared hash matched makes G5 fail
C30_ContentHashGate ==
    (Validated /\ result.ret.ok) =>
        LET g5 == result.ret.value.gate_results[5] IN
        /\ ~pac.content_hash.some => g5.passed
        /\ pac.content_hash.some =>
              (g5.passed <=> pac.content_hash.value = SpecifiedDigest(pac))
        /\ (pac.content_hash.some /\ g5.passed) =>
              \A i \in 1..Len(pac.blocks) : \A content \in OtherContents(pac, i) :
                  ~gate_g5_content_hash([pac EXCEPT !.blocks[i].content = content], now).passed

\* an artifact that declares the digest of its contents has passed G5, and one
\* that declares the same digest in upper case has not
C30_Witness ==
    /\ Validated /\ result.ret.ok
    /\ pac.content_hash.some
    /\ pac.content_hash.value = SpecifiedDigest(pac)
    /\ result.ret.value.gate_results[5].passed
    /\ ~gate_g5_content_hash(
           [pac EXCEPT !.content_hash.value.upper_case = TRUE], now).passed


----------------------------------------------------------------------------
(* run_sentinel: the supervision loop of the process supervisor (SpecSentinel) *)

\* the polls of the supervision loop that are followed
MaxPolls == 4

\* SENTINEL_MAX_FAILURES and SENTINEL_FAIL_CLOSED as main reads them
ConfigInputs ==
    {[max_failures |-> m, fail_closed |-> f] :
        m \in {1, 2, SentinelConfig_default.max_failures}, f \in BOOLEAN}

\* what hardware.check_signal returns: the signal is there, it is not, or the
\* interface could not be read
SignalInputs == {"present", "absent", "error"}

SentinelFrame ==
    UNCHANGED <<now, timer, verifier, decision_gate, armed, result, failed_reviews,
                velocity_rejected, pac, history, ledger_state, approved_reviews>>

InitSentinel ==
    /\ now = 0
    /\ timer = CognitiveGate_new.timer
    /\ verifier = CognitiveGate_new.verifier
    /\ decision_gate = CognitiveGate_new.decision_gate
    /\ armed = CognitiveGate_new.armed
    /\ result = [op |-> "new"]
    /\ failed_reviews = {}
    /\ velocity_rejected = FALSE
    /\ pac = None
    /\ NoHistory
    /\ NoLedger
    /\ approved_reviews = {}
    /\ polls = <<>>
    /\ \E config \in ConfigInputs : sentinel = [pc |-> "init", config |-> config]

\* run_sentinel has returned
Exited(config, child, event, exit_code) ==
    [pc |-> "exited", config |-> config, child |-> child, event |-> event,
     exit_code |-> exit_code]

\* run_sentinel up to the supervision loop: hardware.init, the first
\* check_signal, spawn_node
Startup(init_ok, signal) ==
    /\ sentinel.pc = "init"
    /\ LET config == sentinel.config
           initial_signal == (signal = "present")
       IN sentinel' =
             IF ~init_ok /\ config.fail_closed
             THEN Exited(config, "none", "none", 1)
             ELSE IF ~initial_signal /\ config.fail_closed
             THEN Exited(config, "none", "STARTUP_FAILED", 1)
             ELSE [pc |-> "loop", config |-> config, child |-> "running",
                   consecutive_failures |-> 0]
    /\ UNCHANGED polls
    /\ SentinelFrame

\* one turn of the supervision loop: child.try_wait, then hardware.check_signal
Poll(child_exit, signal) ==
    /\ sentinel.pc = "loop"
    /\ Len(polls) < MaxPolls
    /\ LET config == sentinel.config
           failures == sentinel.consecutive_failures + 1
       IN IF child_exit.some
          THEN /\ sentinel' = Exited(config, "exited", "NODE_EXITED", child_exit.value)
               /\ UNCHANGED polls
          ELSE /\ polls' = Append(polls, signal)
               /\ sentinel' =
                     IF signal = "present"
                     THEN [sentinel EXCEPT !.consecutive_failures = 0]
                     ELSE IF signal = "absent"
                     THEN IF failures >= config.max_failures
                          THEN Exited(config, "killed", "EMERGENCY_KILL", 1)
                          ELSE [sentinel EXCEPT !.consecutive_failures = failures]
                     ELSE IF failures >= config.max_failures /\ config.fail_closed
                          THEN Exited(config, "killed", "FAIL_CLOSED_KILL", 1)
                          ELSE [sentinel EXCEPT !.consecutive_failures = failures]
    /\ SentinelFrame

\* the shutdown signal was received: SIGTERM, SIGKILL after five seconds
Shutdown(graceful) ==
    /\ sentinel.pc = "loop"
    /\ sentinel' = Exited(sentinel.config, IF graceful THEN "exited" ELSE "killed",
                          "SENTINEL_STOP", 0)
    /\ UNCHANGED polls
    /\ SentinelFrame

NextSentinel ==
    \/ \E init_ok \in BOOLEAN, signal \in SignalInputs : Startup(init_ok, signal)
    \/ \E child_exit \in {None, Some(0), Some(2)}, signal \in SignalInputs :
          Poll(child_exit, signal)
    \/ \E graceful \in BOOLEAN : Shutdown(graceful)

SpecSentinel == InitSentinel /\ [][NextSentinel]_vars

\* the last n polls
LastPolls(n) == SubSeq(polls, Len(polls) - n + 1, Len(polls))

\* C31: the process supervisor kills the node for loss of the hardware signal
\* only when the signal has been absent on max_failures consecutive polls; any
\* poll that finds the signal present resets the failure count to zero, and
\* after such a kill the supervisor returns exit code 1
C31_KillAfterConsecutiveAbsence ==
    /\ (sentinel.pc = "exited" /\ sentinel.event = "EMERGENCY_KILL") =>
          /\ Len(polls) >= sentinel.config.max_failures
          /\ \A i \in 1..sentinel.config.max_failures :
                LastPolls(sentinel.config.max_failures)[i] = "absent"
          /\ sentinel.child = "killed"
          /\ sentinel.exit_code = 1
    /\ (sentinel.pc = "loop" /\ polls # <<>> /\ polls[Len(polls)] = "present") =>
          sentinel.consecutive_failures = 0


----------------------------------------------------------------------------
(* Failed appends (SpecLedger) *)

\* C32: an append_entry call that fails (entry with empty id or empty type, lock
\* timeout, read, parse or write error) leaves the stored ledger unchanged and
\* releases the lock: no entry is added and no sequence number is consumed, so
\* the next successful append returns the previous sequence number plus one
C32_FailedAppendLeavesLedger ==
    [][\A w \in Writers :
          (writers[w].pc # "idle" /\ writers'[w].pc = "idle") =>
              /\ result'.op = "append_entry" /\ result'.writer = w
              /\ w \notin files'.lock
              /\ IF result'.ret.ok
                 THEN /\ result'.ret.value = Len(returned) + 1
                      /\ returned' = Append(returned, result'.ret.value)
                 ELSE /\ files'.ledger = files.ledger
                      /\ returned' = returned]_vars

\* four calls were made and two of them failed; the last one returned sequence
\* number 2, and the ledger holds two entries
C32_Witness ==
    /\ \A w \in Writers : writers[w].pc = "idle" /\ writers[w].calls = 2
    /\ result.op = "append_entry"
    /\ result.ret = Ok(2)
    /\ returned = <<1, 2>>
    /\ Len(LedgerEntries) = 2
    /\ files.lock = {}


----------------------------------------------------------------------------
(* Rejections after the challenge was verified (Spec) *)

\* C33: when submit_decision rejects a request with RememberShortcutForbidden or
\* VelocityViolation, the challenge verifier is left unchanged, so the same
\* correct challenge response can be submitted again for that decision and still
\* be verified
C33_RejectionKeepsVerifier ==
    [][(/\ result'.op = "submit_decision"
        /\ result'.ret.kind \in {"RememberShortcutForbidden", "VelocityViolation"})
          => verifier' = verifier]_vars


----------------------------------------------------------------------------
(* The tier of the verified challenge (Spec) *)

\* C34: an Approved Law-tier outcome with challenge_passed = true implies that
\* the verified challenge was generated for the Law tier: a correct response to a
\* challenge generated for a weaker tier never satisfies a Law-tier request
C34_LawNeedsLawChallenge ==
    [][(/\ result'.op = "submit_decision"
        /\ result'.tier = "Law"
        /\ result'.ret.kind = "Approved"
        /\ result'.ret.challenge_passed)
          => /\ result'.response_to.some
             /\ is_active(verifier, result'.response_to.value)
             /\ verifier.active_challenges[result'.response_to.value].tier = "Law"]_vars


----------------------------------------------------------------------------
(* Block types of an artifact that passed G1 and G4 (SpecValidator) *)

\* the positions of the artifact's blocks of one block type
BlocksOfType(block_type) ==
    {i \in 1..Len(pac.blocks) : pac.blocks[i].block_type = block_type}

\* C35: every artifact that passes both G1 and G4 contains each of the 23
\* canonical block types exactly once, with no duplicated and no missing block
\* type
C35_EachBlockTypeOnce ==
    (/\ Validated
     /\ result.ret.ok
     /\ result.ret.value.gate_results[1].passed
     /\ result.ret.value.gate_results[4].passed)
        => \A i \in DOMAIN BlockType_all :
              Cardinality(BlocksOfType(BlockType_all[i])) = 1


----------------------------------------------------------------------------
(* The entry points that stamp the admission themselves (SpecValidator) *)

\* the last call was validate_preflight or validate
StampedAtCall == result.op \in {"validate_preflight", "validate"}

----------------------------------------------------------------------------
(* Starting a review again (SpecTimer) *)

\* C37: calling start for a decision id that already has an active timer resets
\* that timer to zero elapsed and unpaused, and never removes the timer of a
\* different decision id, including when 100 timers are active
C37_RestartKeepsOtherTimers ==
    [][(/\ result'.op = "start"
        /\ result'.decision_id \in DOMAIN timer.active_timers)
          => /\ result'.decision_id \in DOMAIN timer'.active_timers
             /\ ~timer'.active_timers[result'.decision_id].paused
             /\ FrictionTimer_check(timer', result'.decision_id, now').state.elapsed = 0
             /\ \A other \in (DOMAIN timer.active_timers) \ {result'.decision_id} :
                   /\ other \in DOMAIN timer'.active_timers
                   /\ timer'.active_timers[other] = timer.active_timers[other]]_vars


----------------------------------------------------------------------------
(* Attempt counts of the challenge verifier (SpecChallenge) *)

\* C38: after any sequence of generate, verify and clear_expired calls, every
\* challenge id that has an attempt-count entry is an active challenge and its
\* count never exceeds the challenge's maximum attempts: resolving a challenge by
\* success, expiry or terminal failure removes its attempt count together with
\* the challenge
C38_AttemptCountsOfActiveChallenges ==
    \A id \in DOMAIN verifier.attempt_counts :
        /\ is_active(verifier, id)
        /\ verifier.attempt_counts[id] <= verifier.active_challenges[id].max_attempts

============================================================================
